---- MODULE Spec2Model ----
(***************************************************************************)
(* Annotate Studio: the canvas store (useCanvasStore), its command         *)
(* history, selection and clipboard; the geometry of the Viewer (hit test, *)
(* resize handles, rubber band, bounding boxes); the acceleration module   *)
(* (wasm-engine.ts) and the render loop of the Viewer.                     *)
(*                                                                         *)
(* Every store operation is a pure operator  op(st, args)  on a store      *)
(* record  st  that returns the store after the call, written as the code  *)
(* writes it: zustand's set(partial) is the record merge  set(st, partial).*)
(* The actions apply these operators to the variables.                     *)
(*                                                                         *)
(* A stroke id is `stroke-${Date.now()}-${random}`.  It is modelled by a   *)
(* natural number taken from the counter nextId: Date.now() never goes     *)
(* back and the nine random base-36 digits are taken not to collide within *)
(* one millisecond.  timestamp is the logical time of the creating call.   *)
(*                                                                         *)
(* setCurrentPage writes currentPageId alone, which no operation of the    *)
(* store reads; it is left out and currentPageId keeps its initial value.  *)
(***************************************************************************)
EXTENDS Integers, Sequences, FiniteSets, TLC

VARIABLES strokes, undoStack, redoStack, currentPageId, selectedStrokeId,
          selectedStrokeIds, clipboard, nextId, lastCall, ret,
          wasmModule, engine, wasmReady, initPc,
          needsRenderRef, isActiveRef, running, lastTime, timestamp, surface,
          pdfPath, pagesMeta, renderedPages, currentPage, openPc,
          pdfLoadingRef, pdfQueueRef, closure, depsChanged, requests, timers,
          failedLog,
          activeTool, activeShape, pendingSymbol, viewer, pointer, gesture, pages,
          stopClosure,
          renderDeps, background,
          currentPageImage, pdfImage, loading, nextImage, canvasWidth, canvasHeight,
          pdfCanvas, lastPdfImageRef, loopPdfImage

(* The state of the store, with the id counter and the last call.          *)
storeVars == <<strokes, undoStack, redoStack, currentPageId, selectedStrokeId,
               selectedStrokeIds, clipboard, nextId>>

(* The module state of wasm-engine.ts and the wasmReady state of the Viewer. *)
(* initPc is where the init() of the Viewer's mount effect stands.          *)
wasmVars == <<wasmModule, engine, wasmReady, initPc>>

(* The render loop of the Viewer: its two refs, the running and lastTime   *)
(* of the loop's closure, the timestamp of the last animation frame and    *)
(* what the drawing surface shows; the dependencies of the render-loop     *)
(* effect that have changed since its last run, and what the last redraw   *)
(* drew underneath the strokes.                                            *)
loopVars == <<needsRenderRef, isActiveRef, running, lastTime, timestamp, surface,
              renderDeps, background>>

(* usePdfStore (pagesMeta as the list of its page numbers, renderedPages   *)
(* as the set of its entries), the currentPage of page.tsx, and where      *)
(* handleOpenPdf stands.                                                   *)
pdfVars == <<pdfPath, pagesMeta, renderedPages, currentPage, openPc>>

(* The prefetch effect of the Viewer: its two refs, the closure of its     *)
(* last run, what makes React run it again, the rasterization             *)
(* requests that have not returned to processQueue, the pending            *)
(* setTimeout(processQueue) of the last run, and the pages whose failure   *)
(* was logged since the effect last ran for another page or document.      *)
(* depsChanged holds the dependencies of the effect that have changed      *)
(* since its last run: React runs it again when there is one.              *)
prefetchVars == <<pdfLoadingRef, pdfQueueRef, closure, depsChanged, requests,
                  timers, failedLog>>

(* The tool state of page.tsx, the interaction state of the Viewer (its    *)
(* useState values that the pointer handlers read and write, one field     *)
(* each), and the kind of the pointer that is down on the canvas ("none"   *)
(* between two gestures).  gesture is a history variable: the strokes of   *)
(* the store when the pointer last went down, and what that pointer-down   *)
(* began ("drag", "resize" or "other").  pages is the page list of         *)
(* page.tsx, by id.  stopClosure holds the state that the memoized         *)
(* stopDrawing read when useCallback last made it and that is not among    *)
(* its dependencies.                                                       *)
gestureVars == <<activeTool, activeShape, pendingSymbol, viewer, pointer, gesture,
                 pages, stopClosure>>

(* The page image of the Viewer: currentPageImage (0 when undefined, else  *)
(* the number of the Image made from it), the state pdfImage and the       *)
(* Images whose onload is pending (an Image is a number from 1, null is    *)
(* 0), the size of the canvas, the offscreen buffer with the image drawn   *)
(* on it (0 when blank), lastPdfImageRef, and the pdfImage in the closure  *)
(* of the running loop.                                                    *)
canvasVars == <<currentPageImage, pdfImage, loading, nextImage, canvasWidth,
                canvasHeight, pdfCanvas, lastPdfImageRef, loopPdfImage>>

(* What the store, the module and the render loop leave alone.             *)
otherVars == <<pdfVars, prefetchVars, gestureVars, canvasVars>>

vars == <<storeVars, lastCall, ret, wasmVars, loopVars, otherVars>>

----------------------------------------------------------------------------
(* Bounds of the model.                                                    *)

\* strokes ever created (ids 1..MaxIds)
MaxIds == 2
\* entries of undoStack
MaxHist == 2

(* null of selectedStrokeId; ids are 1, 2, ...                             *)
Null == 0

(* No closure of the prefetch effect is live.                              *)
NoClosure == [null |-> TRUE]

(* null of the module variable `engine` of wasm-engine.ts.                 *)
NoEngine == [null |-> TRUE]

(* null of a point or a text box of the Viewer's state.                    *)
NoPoint == [null |-> TRUE]

NoTextInput == [null |-> TRUE]

(* Nothing was drawn underneath the strokes; pdfCanvasRef.current is null. *)
NoBackground == [drawn |-> FALSE, image |-> 0]

NoCanvas == [null |-> TRUE]

(* The page ids of the calls.                                              *)
Pages == {1, 2}

Pt(x, y) == [x |-> x, y |-> y]

(* An optional argument that is not given.                                 *)
Undefined == [undefined |-> TRUE]

----------------------------------------------------------------------------
(* Sequence helpers: Array.prototype.includes / slice.  filter is          *)
(* SelectSeq and map is a function over the indices.                       *)

Includes(s, x) == \E i \in 1..Len(s) : s[i] = x

SliceButLast(s) == SubSeq(s, 1, Len(s) - 1)

IdsOf(list) == [i \in 1..Len(list) |-> list[i].id]

IdSet(list) == {list[i].id : i \in 1..Len(list)}

(* { ...a, ...b } : b's fields override a's.                               *)
Spread(a, b) ==
    [f \in (DOMAIN a) \cup (DOMAIN b) |-> IF f \in DOMAIN b THEN b[f] ELSE a[f]]

(* zustand set(partial): merge the partial state into the store.  Every    *)
(* set makes a new state object and notifies the subscribers, whatever the *)
(* values: a store that is watched (it has the field notified) records it. *)
set(st, partial) ==
    Spread(st, IF "notified" \in DOMAIN st
               THEN Spread(partial, [notified |-> TRUE]) ELSE partial)

----------------------------------------------------------------------------
(* The store after construction.                                           *)

InitialStore ==
    [strokes |-> <<>>,
     undoStack |-> <<>>,
     redoStack |-> <<>>,
     currentPageId |-> 1,
     selectedStrokeId |-> Null,
     selectedStrokeIds |-> <<>>,
     clipboard |-> <<>>]

(* The useState values of the Viewer after its first render.  Pressures    *)
(* are counted in tenths: currentPressure is useState(0.5).                *)
InitialViewer ==
    [isDrawing |-> FALSE,
     isPanning |-> FALSE,
     isDragging |-> FALSE,
     isResizing |-> FALSE,
     isRubberBanding |-> FALSE,
     rubberBandStart |-> NoPoint,
     rubberBandEnd |-> NoPoint,
     resizeCorner |-> "null",
     dragOffset |-> [x |-> 0, y |-> 0],
     currentStroke |-> <<>>,
     shapeStart |-> NoPoint,
     shapeEnd |-> NoPoint,
     symbolStart |-> NoPoint,
     symbolEnd |-> NoPoint,
     textInput |-> NoTextInput,
     currentPressure |-> 5]

(* What a call returns: the store after it, and its return value           *)
(* ("undefined" for the operations declared `=> void`).                    *)
Result(st, value) == [st |-> st, ret |-> value]

Void(st) == Result(st, "undefined")

----------------------------------------------------------------------------
(* Stroke creation, mutation and removal.                                  *)

(* addStroke, had it snapshotted the list after appending the new stroke.  *)
addStroke_snapshotAfter(st, strokeData, fresh) ==
    LET newStroke == Spread(strokeData, [id |-> fresh, timestamp |-> fresh])
    IN  Void(set(st, [strokes |-> Append(st.strokes, newStroke),
                      undoStack |-> Append(st.undoStack, Append(st.strokes, newStroke)),
                      redoStack |-> <<>>]))

addStroke(st, strokeData, fresh) ==
    LET newStroke == Spread(strokeData, [id |-> fresh, timestamp |-> fresh])
    IN  Void(set(st, [strokes |-> Append(st.strokes, newStroke),
                      undoStack |-> Append(st.undoStack, st.strokes),
                      redoStack |-> <<>>]))

(* updateStroke, had it written the updates into the stroke object itself, *)
(* which the clipboard of copySelected shares with the list.               *)
updateStroke_inPlace(st, id, updates) ==
    Void(set(st, [strokes |-> [i \in 1..Len(st.strokes) |->
                                  IF st.strokes[i].id = id
                                  THEN Spread(st.strokes[i], updates)
                                  ELSE st.strokes[i]],
                  clipboard |-> [i \in 1..Len(st.clipboard) |->
                                  IF st.clipboard[i].id = id
                                  THEN Spread(st.clipboard[i], updates)
                                  ELSE st.clipboard[i]],
                  undoStack |-> Append(st.undoStack, st.strokes),
                  redoStack |-> <<>>]))

updateStroke(st, id, updates) ==
    Void(set(st, [strokes |-> [i \in 1..Len(st.strokes) |->
                                  IF st.strokes[i].id = id
                                  THEN Spread(st.strokes[i], updates)
                                  ELSE st.strokes[i]],
                  undoStack |-> Append(st.undoStack, st.strokes),
                  redoStack |-> <<>>]))

deleteStroke(st, id) ==
    Void(set(st, [strokes |-> SelectSeq(st.strokes, LAMBDA s : s.id # id),
                  undoStack |-> Append(st.undoStack, st.strokes),
                  redoStack |-> <<>>,
                  selectedStrokeId |->
                      IF st.selectedStrokeId = id THEN Null ELSE st.selectedStrokeId,
                  selectedStrokeIds |->
                      SelectSeq(st.selectedStrokeIds, LAMBDA sid : sid # id)]))

(* deleteSelectedStrokes without its early return on an empty selection.   *)
deleteSelectedStrokes_noEarlyReturn(st) ==
    Void(set(st, [strokes |-> SelectSeq(st.strokes,
                                  LAMBDA s : ~Includes(st.selectedStrokeIds, s.id)),
                  undoStack |-> Append(st.undoStack, st.strokes),
                  redoStack |-> <<>>,
                  selectedStrokeId |-> Null,
                  selectedStrokeIds |-> <<>>]))

deleteSelectedStrokes(st) ==
    IF Len(st.selectedStrokeIds) = 0 THEN Void(st)
    ELSE Void(set(st, [strokes |-> SelectSeq(st.strokes,
                                          LAMBDA s : ~Includes(st.selectedStrokeIds, s.id)),
                       undoStack |-> Append(st.undoStack, st.strokes),
                       redoStack |-> <<>>,
                       selectedStrokeId |-> Null,
                       selectedStrokeIds |-> <<>>]))

(* clearPage, had it left the redo history in place.                       *)
clearPage_keepsRedo(st, pageId) ==
    Void(set(st, [strokes |-> SelectSeq(st.strokes, LAMBDA s : s.pageId # pageId),
                  undoStack |-> Append(st.undoStack, st.strokes)]))

clearPage(st, pageId) ==
    Void(set(st, [strokes |-> SelectSeq(st.strokes, LAMBDA s : s.pageId # pageId),
                  undoStack |-> Append(st.undoStack, st.strokes),
                  redoStack |-> <<>>]))

----------------------------------------------------------------------------
(* Selection.                                                              *)

selectStroke(st, id) ==
    Void(set(st, [selectedStrokeId |-> id,
                  selectedStrokeIds |-> IF id # Null THEN <<id>> ELSE <<>>]))

(* selectStrokes, had it recorded the selection change in the history.     *)
selectStrokes_recordsHistory(st, ids) ==
    Void(set(st, [selectedStrokeId |-> IF Len(ids) > 0 THEN ids[1] ELSE Null,
                  selectedStrokeIds |-> ids,
                  undoStack |-> Append(st.undoStack, st.strokes),
                  redoStack |-> <<>>]))

selectStrokes(st, ids) ==
    Void(set(st, [selectedStrokeId |-> IF Len(ids) > 0 THEN ids[1] ELSE Null,
                  selectedStrokeIds |-> ids]))

addToSelection(st, id) ==
    IF ~Includes(st.selectedStrokeIds, id)
    THEN Void(set(st, [selectedStrokeIds |-> Append(st.selectedStrokeIds, id),
                       selectedStrokeId |-> id]))
    ELSE Void(st)

(* removeFromSelection without the update of the primary selection.        *)
removeFromSelection_keepsPrimary(st, id) ==
    LET newIds == SelectSeq(st.selectedStrokeIds, LAMBDA sid : sid # id)
    IN  Void(set(st, [selectedStrokeIds |-> newIds]))

removeFromSelection(st, id) ==
    LET newIds == SelectSeq(st.selectedStrokeIds, LAMBDA sid : sid # id)
    IN  Void(set(st, [selectedStrokeIds |-> newIds,
                      selectedStrokeId |-> IF Len(newIds) > 0 THEN newIds[1] ELSE Null]))

clearSelection(st) ==
    Void(set(st, [selectedStrokeId |-> Null, selectedStrokeIds |-> <<>>]))

----------------------------------------------------------------------------
(* Reads.                                                                  *)

getStrokeById(st, id) == SelectSeq(st.strokes, LAMBDA s : s.id = id)

getPageStrokes(st, pageId) == SelectSeq(st.strokes, LAMBDA s : s.pageId = pageId)

canUndo(st) == Len(st.undoStack) > 0

canRedo(st) == Len(st.redoStack) > 0

----------------------------------------------------------------------------
(* History.                                                                *)

(* undo, had it reported success on an empty stack.                        *)
undo_alwaysTrue(st) ==
    IF Len(st.undoStack) = 0 THEN Result(st, "true")
    ELSE LET previousState == st.undoStack[Len(st.undoStack)]
         IN  Result(set(st, [strokes |-> previousState,
                             undoStack |-> SliceButLast(st.undoStack),
                             redoStack |-> Append(st.redoStack, st.strokes)]),
                    "true")

undo(st) ==
    IF Len(st.undoStack) = 0 THEN Result(st, "false")
    ELSE LET previousState == st.undoStack[Len(st.undoStack)]
         IN  Result(set(st, [strokes |-> previousState,
                             undoStack |-> SliceButLast(st.undoStack),
                             redoStack |-> Append(st.redoStack, st.strokes)]),
                    "true")

(* redo, had it pushed the list it restores instead of the current one.    *)
redo_pushesRestored(st) ==
    IF Len(st.redoStack) = 0 THEN Result(st, "false")
    ELSE LET nextState == st.redoStack[Len(st.redoStack)]
         IN  Result(set(st, [strokes |-> nextState,
                             redoStack |-> SliceButLast(st.redoStack),
                             undoStack |-> Append(st.undoStack, nextState)]),
                    "true")

redo(st) ==
    IF Len(st.redoStack) = 0 THEN Result(st, "false")
    ELSE LET nextState == st.redoStack[Len(st.redoStack)]
         IN  Result(set(st, [strokes |-> nextState,
                             redoStack |-> SliceButLast(st.redoStack),
                             undoStack |-> Append(st.undoStack, st.strokes)]),
                    "true")

----------------------------------------------------------------------------
(* Clipboard.                                                              *)

selectedStrokes(st) ==
    SelectSeq(st.strokes, LAMBDA s : Includes(st.selectedStrokeIds, s.id))

copySelected(st) ==
    IF Len(st.selectedStrokeIds) = 0 THEN Void(st)
    ELSE Void(set(st, [clipboard |-> selectedStrokes(st)]))

cutSelected(st) ==
    IF Len(st.selectedStrokeIds) = 0 THEN Void(st)
    ELSE Void(set(st, [clipboard |-> selectedStrokes(st),
                       strokes |-> SelectSeq(st.strokes,
                                          LAMBDA s : ~Includes(st.selectedStrokeIds, s.id)),
                       undoStack |-> Append(st.undoStack, st.strokes),
                       redoStack |-> <<>>,
                       selectedStrokeId |-> Null,
                       selectedStrokeIds |-> <<>>]))

(* The pasted copies, had they kept the page of the clipboard stroke and   *)
(* been shifted along x only.                                              *)
pasteNewStrokes_xOnly(clip, pageId, offset, fresh) ==
    [i \in 1..Len(clip) |->
        Spread(clip[i],
               [id |-> fresh + i - 1,
                timestamp |-> fresh,
                points |-> [j \in 1..Len(clip[i].points) |->
                               Pt(clip[i].points[j].x + offset.x,
                                  clip[i].points[j].y)]])]

(* clipboard.map(s => ({...s, id, timestamp, pageId, points: shifted})):   *)
(* the i-th copy takes the i-th id from fresh on.                          *)
pasteNewStrokes(clip, pageId, offset, fresh) ==
    [i \in 1..Len(clip) |->
        Spread(clip[i],
               [id |-> fresh + i - 1,
                timestamp |-> fresh,
                pageId |-> pageId,
                points |-> [j \in 1..Len(clip[i].points) |->
                               Pt(clip[i].points[j].x + offset.x,
                                  clip[i].points[j].y + offset.y)]])]

(* The duplicates, had the spread of the source kept its id.               *)
duplicateNewStrokes_keepsId(selected, pageId, fresh) ==
    [i \in 1..Len(selected) |->
        Spread(selected[i],
               [timestamp |-> fresh,
                pageId |-> pageId,
                points |-> [j \in 1..Len(selected[i].points) |->
                               Pt(selected[i].points[j].x + 20,
                                  selected[i].points[j].y + 20)]])]

(* selectedStrokes.map(s => ({...s, id, timestamp, pageId, points + 20}))  *)
duplicateNewStrokes(selected, pageId, fresh) ==
    [i \in 1..Len(selected) |->
        Spread(selected[i],
               [id |-> fresh + i - 1,
                timestamp |-> fresh,
                pageId |-> pageId,
                points |-> [j \in 1..Len(selected[i].points) |->
                               Pt(selected[i].points[j].x + 20,
                                  selected[i].points[j].y + 20)]])]

(* The primary selection, had it been taken from the end of the list.      *)
lastIdOrNull(newStrokes) ==
    IF Len(newStrokes) > 0 THEN newStrokes[Len(newStrokes)].id ELSE Null

(* newStrokes[0]?.id || null                                               *)
firstIdOrNull(newStrokes) == IF Len(newStrokes) > 0 THEN newStrokes[1].id ELSE Null

paste(st, pageId, offsetArg, fresh) ==
    LET offset == IF offsetArg = Undefined THEN Pt(20, 20) ELSE offsetArg
    IN  IF Len(st.clipboard) = 0 THEN Void(st)
        ELSE LET newStrokes == pasteNewStrokes(st.clipboard, pageId, offset, fresh)
             IN  Void(set(st, [strokes |-> st.strokes \o newStrokes,
                               undoStack |-> Append(st.undoStack, st.strokes),
                               redoStack |-> <<>>,
                               selectedStrokeIds |-> IdsOf(newStrokes),
                               selectedStrokeId |-> firstIdOrNull(newStrokes)]))

duplicateSelected(st, pageId, fresh) ==
    IF Len(st.selectedStrokeIds) = 0 THEN Void(st)
    ELSE LET newStrokes == duplicateNewStrokes(selectedStrokes(st), pageId, fresh)
         IN  Void(set(st, [strokes |-> st.strokes \o newStrokes,
                           undoStack |-> Append(st.undoStack, st.strokes),
                           redoStack |-> <<>>,
                           selectedStrokeIds |-> IdsOf(newStrokes),
                           selectedStrokeId |-> firstIdOrNull(newStrokes)]))

----------------------------------------------------------------------------
(* The inputs of the calls.                                                *)

StrokeDataInputs ==
    {[points |-> <<Pt(10, 10)>>, color |-> "#000000", thickness |-> 2,
      opacity |-> 100, tool |-> "pen", pageId |-> 1]}

UpdateInputs ==
    {[points |-> <<Pt(0, 0), Pt(100, 50)>>]}

OffsetInputs == {Undefined, Pt(-10, 5)}

(* The ids a caller can hold: those created so far (an id is only ever     *)
(* learnt from the store).                                                 *)
KnownIds == 1..(nextId - 1)

(* Lists of distinct known ids, of length 0, 1 or 2.                       *)
IdListInputs ==
    {<<>>} \cup {<<a>> : a \in KnownIds}
           \cup {<<p[1], p[2]>> : p \in {q \in KnownIds \X KnownIds : q[1] # q[2]}}

----------------------------------------------------------------------------
(* The state machine: one action per store operation.                      *)

Store ==
    [strokes |-> strokes,
     undoStack |-> undoStack,
     redoStack |-> redoStack,
     currentPageId |-> currentPageId,
     selectedStrokeId |-> selectedStrokeId,
     selectedStrokeIds |-> selectedStrokeIds,
     clipboard |-> clipboard]

(* The call  call  returned  r : the store after it.                       *)
ReturnsStore(call, r) ==
    /\ strokes' = r.st.strokes
    /\ undoStack' = r.st.undoStack
    /\ redoStack' = r.st.redoStack
    /\ currentPageId' = r.st.currentPageId
    /\ selectedStrokeId' = r.st.selectedStrokeId
    /\ selectedStrokeIds' = r.st.selectedStrokeIds
    /\ clipboard' = r.st.clipboard
    /\ lastCall' = call
    /\ ret' = r.ret

(* A call of the store on its own: nothing of the Viewer takes part.       *)
Returns(call, r) ==
    /\ ReturnsStore(call, r)
    /\ UNCHANGED <<otherVars, wasmVars, loopVars>>

(* Bounds of the model: room for one more history entry, and for n more ids. *)
HistRoom == Len(undoStack) < MaxHist

IdRoom(n) == nextId + n - 1 <= MaxIds

Init ==
    /\ strokes = InitialStore.strokes
    /\ undoStack = InitialStore.undoStack
    /\ redoStack = InitialStore.redoStack
    /\ currentPageId = InitialStore.currentPageId
    /\ selectedStrokeId = InitialStore.selectedStrokeId
    /\ selectedStrokeIds = InitialStore.selectedStrokeIds
    /\ clipboard = InitialStore.clipboard
    /\ nextId = 1
    /\ lastCall = "create"
    /\ ret = "undefined"
    /\ wasmModule = "null"
    /\ engine = NoEngine
    /\ wasmReady = FALSE
    /\ initPc = "import"
    /\ needsRenderRef = TRUE
    /\ isActiveRef = FALSE
    /\ running = FALSE
    /\ lastTime = 0
    /\ timestamp = 0
    /\ surface = <<>>
    /\ pdfPath = "null"
    /\ pagesMeta = <<>>
    /\ renderedPages = {}
    /\ currentPage = 1
    /\ openPc = "idle"
    /\ pdfLoadingRef = FALSE
    /\ pdfQueueRef = <<>>
    /\ closure = NoClosure
    /\ depsChanged = {}
    /\ requests = <<>>
    /\ timers = 0
    /\ failedLog = {}
    /\ activeTool = "select"
    /\ activeShape = "rectangle"
    /\ pendingSymbol = "null"
    /\ viewer = InitialViewer
    /\ pointer = "none"
    /\ gesture = [start |-> <<>>, kind |-> "other"]
    /\ pages = <<1>>
    /\ stopClosure = [isRubberBanding |-> FALSE, rubberBandStart |-> NoPoint,
                      rubberBandEnd |-> NoPoint, currentPressure |-> 5]
    /\ renderDeps = {}
    /\ background = NoBackground
    /\ currentPageImage = 0
    /\ pdfImage = 0
    /\ loading = {}
    /\ nextImage = 1
    /\ canvasWidth = 595
    /\ canvasHeight = 842
    /\ pdfCanvas = NoCanvas
    /\ lastPdfImageRef = 0
    /\ loopPdfImage = 0

AddStroke ==
    \E data \in StrokeDataInputs :
        /\ HistRoom /\ IdRoom(1)
        /\ Returns("addStroke", addStroke(Store, data, nextId))
        /\ nextId' = nextId + 1

UpdateStroke ==
    \E id \in KnownIds, updates \in UpdateInputs :
        /\ HistRoom
        /\ Returns("updateStroke", updateStroke(Store, id, updates))
        /\ UNCHANGED nextId

DeleteStroke ==
    \E id \in KnownIds :
        /\ HistRoom
        /\ Returns("deleteStroke", deleteStroke(Store, id))
        /\ UNCHANGED nextId

DeleteSelectedStrokes ==
    /\ Len(selectedStrokeIds) = 0 \/ HistRoom
    /\ Returns("deleteSelectedStrokes", deleteSelectedStrokes(Store))
    /\ UNCHANGED nextId

ClearPage ==
    \E pageId \in Pages :
        /\ HistRoom
        /\ Returns("clearPage", clearPage(Store, pageId))
        /\ UNCHANGED nextId

SelectStroke ==
    \E id \in KnownIds \cup {Null} :
        /\ Returns("selectStroke", selectStroke(Store, id))
        /\ UNCHANGED nextId

SelectStrokes ==
    \E ids \in IdListInputs :
        /\ Returns("selectStrokes", selectStrokes(Store, ids))
        /\ UNCHANGED nextId

AddToSelection ==
    \E id \in KnownIds :
        /\ Returns("addToSelection", addToSelection(Store, id))
        /\ UNCHANGED nextId

RemoveFromSelection ==
    \E id \in KnownIds :
        /\ Returns("removeFromSelection",
                   removeFromSelection(Store, id))
        /\ UNCHANGED nextId

ClearSelection ==
    /\ Returns("clearSelection", clearSelection(Store))
    /\ UNCHANGED nextId

Undo ==
    /\ Returns("undo", undo(Store))
    /\ UNCHANGED nextId

Redo ==
    /\ Returns("redo", redo(Store))
    /\ UNCHANGED nextId

CopySelected ==
    /\ Returns("copySelected", copySelected(Store))
    /\ UNCHANGED nextId

CutSelected ==
    /\ Len(selectedStrokeIds) = 0 \/ HistRoom
    /\ Returns("cutSelected", cutSelected(Store))
    /\ UNCHANGED nextId

Paste ==
    \E pageId \in Pages, offset \in OffsetInputs :
        /\ Len(clipboard) = 0 \/ (HistRoom /\ IdRoom(Len(clipboard)))
        /\ Returns("paste",
                   paste(Store, pageId, offset, nextId))
        /\ nextId' = nextId + Len(clipboard)

DuplicateSelected ==
    \E pageId \in Pages :
        /\ \/ Len(selectedStrokeIds) = 0
           \/ (HistRoom /\ IdRoom(Len(selectedStrokes(Store))))
        /\ Returns("duplicateSelected",
                   duplicateSelected(Store, pageId, nextId))
        /\ nextId' = nextId + (IF Len(selectedStrokeIds) = 0 THEN 0
                               ELSE Len(selectedStrokes(Store)))

Next ==
    \/ AddStroke
    \/ UpdateStroke
    \/ DeleteStroke
    \/ DeleteSelectedStrokes
    \/ ClearPage
    \/ SelectStroke
    \/ SelectStrokes
    \/ AddToSelection
    \/ RemoveFromSelection
    \/ ClearSelection
    \/ Undo
    \/ Redo
    \/ CopySelected
    \/ CutSelected
    \/ Paste
    \/ DuplicateSelected

Spec == Init /\ [][Next]_vars

----------------------------------------------------------------------------
(* The calls a caller can make in the current state, and what they return. *)
(* A claim about an operation is checked on each of these, in every        *)
(* reachable state.                                                        *)

AddCalls == {addStroke(Store, d, nextId) : d \in StrokeDataInputs}

UpdateCalls ==
    {updateStroke(Store, id, u) : id \in KnownIds, u \in UpdateInputs}

DeleteCalls == {deleteStroke(Store, id) : id \in KnownIds}

ClearPageCalls == {clearPage(Store, p) : p \in Pages}

PasteCalls ==
    {paste(Store, p, off, nextId) : p \in Pages, off \in OffsetInputs}

DuplicateCalls == {duplicateSelected(Store, p, nextId) : p \in Pages}

SelectionCalls ==
    {selectStroke(Store, id) : id \in KnownIds \cup {Null}}
    \cup {selectStrokes(Store, ids) : ids \in IdListInputs}
    \cup {addToSelection(Store, id) : id \in KnownIds}
    \cup {removeFromSelection(Store, id) : id \in KnownIds}
    \cup {clearSelection(Store)}

(* Every call of one of the eight mutating operations.                     *)
MutatingCalls ==
    AddCalls \cup UpdateCalls \cup DeleteCalls \cup ClearPageCalls
    \cup {deleteSelectedStrokes(Store), cutSelected(Store)}
    \cup PasteCalls \cup DuplicateCalls

(* The mutating calls that get past the early return of the operations     *)
(* that act on the selection or the clipboard.                             *)
EditingCalls ==
    AddCalls \cup UpdateCalls \cup DeleteCalls \cup ClearPageCalls
    \cup (IF Len(selectedStrokeIds) # 0
          THEN {deleteSelectedStrokes(Store), cutSelected(Store)} \cup DuplicateCalls
          ELSE {})
    \cup (IF Len(clipboard) # 0 THEN PasteCalls ELSE {})

RECURSIVE UndoTimes(_, _)
UndoTimes(st, n) == IF n = 0 THEN st ELSE UndoTimes(undo(st).st, n - 1)

RECURSIVE RedoTimes(_, _)
RedoTimes(st, n) == IF n = 0 THEN st ELSE RedoTimes(redo(st).st, n - 1)

----------------------------------------------------------------------------
(* C1: in every state reached by any sequence of store operations, undo()  *)
(* called N times (N at most the depth of undoStack) and then redo()       *)
(* called N times gives back exactly the stroke list of that state, every  *)
(* one of these calls returns true, canUndo() is false after the N undos   *)
(* exactly when N is the whole depth, and canRedo() is false after k redos *)
(* exactly when the redo stack is used up.                                 *)
C1_UndoRedoInverse ==
    \A n \in 0..Len(undoStack) :
        LET undone == UndoTimes(Store, n)
            redone == RedoTimes(undone, n)
        IN  /\ redone.strokes = strokes
            /\ redone.undoStack = undoStack
            /\ redone.redoStack = redoStack
            /\ canUndo(undone) <=> (n < Len(undoStack))
            /\ \A k \in 0..(n - 1) :
                  /\ undo(UndoTimes(Store, k)).ret = "true"
                  /\ redo(RedoTimes(undone, k)).ret = "true"
            /\ \A k \in 0..(n + Len(redoStack)) :
                  canRedo(RedoTimes(undone, k)) <=> (k < n + Len(redoStack))

(* Two undos and two redos have run over two different snapshots.          *)
C1_Witness ==
    /\ lastCall = "redo" /\ ret = "true"
    /\ Len(undoStack) = 2 /\ redoStack = <<>>
    /\ strokes # undoStack[2] /\ undoStack[2] # undoStack[1]

----------------------------------------------------------------------------
(* C2, as claimed: after a call of any of the eight mutating operations    *)
(* redoStack is empty, whatever it held before.                            *)
C2_EveryMutatingCallClearsRedo ==
    \A r \in MutatingCalls : r.st.redoStack = <<>>

(* C2, as the code has it: redoStack is empty after addStroke,             *)
(* updateStroke, deleteStroke and clearPage, after deleteSelectedStrokes,  *)
(* cutSelected and duplicateSelected called with a non-empty selection,    *)
(* and after paste called with a non-empty clipboard.                      *)
C2_NewEditClearsRedo ==
    \A r \in EditingCalls : r.st.redoStack = <<>>

(* There is redo history to lose, and every mutating operation acts.       *)
C2_Witness ==
    /\ redoStack # <<>>
    /\ Len(selectedStrokeIds) # 0 /\ Len(clipboard) # 0
    /\ \A r \in EditingCalls : r.st.redoStack # redoStack

----------------------------------------------------------------------------
(* C3: every creation, mutation or removal of a stroke pushes exactly one  *)
(* entry onto undoStack, the stroke list as it was before the operation,   *)
(* so that one undo() right after it returns true and restores that list.  *)
C3_PushesPreMutationSnapshot ==
    \A r \in EditingCalls :
        /\ r.st.undoStack = Append(undoStack, strokes)
        /\ undo(r.st).ret = "true"
        /\ undo(r.st).st.strokes = strokes

(* A creation, mutation or removal has run on a non-empty list and has     *)
(* changed it.                                                             *)
C3_Witness ==
    /\ lastCall \in {"addStroke", "updateStroke", "deleteStroke"}
    /\ Len(undoStack) = 2
    /\ undoStack[2] # <<>> /\ undoStack[2] # strokes

----------------------------------------------------------------------------
(* C4: updateStroke(id, fields) with an id that is not in strokes leaves   *)
(* the store as it was: strokes, undoStack and redoStack are unchanged.    *)
C4_UpdateOfMissingIdIsNoOp ==
    \A id \in KnownIds, u \in UpdateInputs :
        id \notin IdSet(strokes) =>
            LET r == updateStroke(Store, id, u).st
            IN  /\ r.strokes = strokes
                /\ r.undoStack = undoStack
                /\ r.redoStack = redoStack

----------------------------------------------------------------------------
(* C5: right after deleteStroke has removed a stroke, deleting the same id *)
(* again adds no entry to undoStack.                                       *)
C5_SecondDeleteAddsNoHistory ==
    \A id \in KnownIds :
        (/\ lastCall = "deleteStroke"
         /\ id \notin IdSet(strokes)
         /\ id \in IdSet(undoStack[Len(undoStack)]))
        => Len(deleteStroke(Store, id).st.undoStack) = Len(undoStack)

----------------------------------------------------------------------------
(* C6: undo() returns false and leaves the store unchanged when undoStack  *)
(* is empty and returns true otherwise; redo() likewise with redoStack.    *)
C6_UndoRedoReturn ==
    /\ Len(undoStack) = 0 => undo(Store) = Result(Store, "false")
    /\ Len(undoStack) # 0 => undo(Store).ret = "true"
    /\ Len(redoStack) = 0 => redo(Store) = Result(Store, "false")
    /\ Len(redoStack) # 0 => redo(Store).ret = "true"
    /\ lastCall \in {"undo", "redo"} => ret \in {"true", "false"}

(* undo() has just been refused on an empty stack that earlier undos       *)
(* emptied.                                                                *)
C6_Witness ==
    /\ lastCall = "undo" /\ ret = "false"
    /\ undoStack = <<>> /\ redoStack # <<>>

----------------------------------------------------------------------------
(* C7: selectStroke, selectStrokes, addToSelection, removeFromSelection    *)
(* and clearSelection leave strokes, undoStack, redoStack and clipboard    *)
(* unchanged.                                                              *)
C7_SelectionIsPure ==
    \A r \in SelectionCalls :
        /\ r.st.strokes = strokes
        /\ r.st.undoStack = undoStack
        /\ r.st.redoStack = redoStack
        /\ r.st.clipboard = clipboard

(* A selection operation has changed the selection while strokes, both     *)
(* stacks and the clipboard all hold something.                            *)
C7_Witness ==
    /\ lastCall = "removeFromSelection"
    /\ Len(selectedStrokeIds) # 0
    /\ strokes # <<>> /\ undoStack # <<>> /\ redoStack # <<>> /\ clipboard # <<>>

----------------------------------------------------------------------------
(* C8: paste(pageId, offset) with a non-empty clipboard keeps the strokes  *)
(* there are and appends one new stroke per clipboard stroke, in order:    *)
(* each point is the clipboard point moved by offset ((20,20) when no      *)
(* offset is given), pageId is the argument, and the id is none of the ids *)
(* in strokes.  A 1-point stroke at (10,10) pasted with (20,20) gives a    *)
(* stroke at (30,30).                                                      *)
C8_PasteOffsetsCopies ==
    \A p \in Pages, offsetArg \in OffsetInputs :
        Len(clipboard) # 0 =>
            LET r == paste(Store, p, offsetArg, nextId).st
                off == IF offsetArg = Undefined THEN Pt(20, 20) ELSE offsetArg
                n == Len(strokes)
            IN  /\ Len(r.strokes) = n + Len(clipboard)
                /\ SubSeq(r.strokes, 1, n) = strokes
                /\ \A i \in 1..Len(clipboard) :
                      LET new == r.strokes[n + i]
                          old == clipboard[i]
                      IN  /\ new.pageId = p
                          /\ new.id \notin IdSet(strokes)
                          /\ Len(new.points) = Len(old.points)
                          /\ \A j \in 1..Len(old.points) :
                                /\ new.points[j].x = old.points[j].x + off.x
                                /\ new.points[j].y = old.points[j].y + off.y
                          /\ (old.points = <<Pt(10, 10)>> /\ off = Pt(20, 20))
                                => new.points = <<Pt(30, 30)>>

(* The stroke at (10,10) has been pasted onto page 2 and its copy is at    *)
(* (30,30) under a new id.                                                 *)
C8_Witness ==
    /\ lastCall = "paste"
    /\ Len(clipboard) = 1 /\ clipboard[1].points = <<Pt(10, 10)>>
    /\ Len(strokes) = 2
    /\ strokes[2].points = <<Pt(30, 30)>> /\ strokes[2].pageId = 2
    /\ strokes[2].id # strokes[1].id /\ strokes[2].id # clipboard[1].id

----------------------------------------------------------------------------
(* C9: after paste with a non-empty clipboard and after duplicateSelected  *)
(* with a non-empty selection, selectedStrokeIds is the list of the ids of *)
(* the strokes just created, in creation order, selectedStrokeId is the    *)
(* first of them, and no id selected before is selected any more.          *)
SelectsExactlyTheNew(r) ==
    LET new == SubSeq(r.strokes, Len(strokes) + 1, Len(r.strokes))
    IN  /\ r.selectedStrokeIds = IdsOf(new)
        /\ r.selectedStrokeId = (IF Len(new) > 0 THEN new[1].id ELSE Null)
        /\ \A i \in 1..Len(selectedStrokeIds) :
              ~Includes(r.selectedStrokeIds, selectedStrokeIds[i])

C9_NewStrokesBecomeSelection ==
    /\ Len(clipboard) # 0 => \A r \in PasteCalls : SelectsExactlyTheNew(r.st)
    /\ Len(selectedStrokeIds) # 0 =>
          \A r \in DuplicateCalls : SelectsExactlyTheNew(r.st)

(* A paste has made its copy the selection; the stroke it was copied from  *)
(* is still there, unselected.                                             *)
C9_Witness ==
    /\ lastCall = "paste"
    /\ Len(strokes) = 2
    /\ selectedStrokeIds = <<strokes[2].id>>
    /\ selectedStrokeId = strokes[2].id

----------------------------------------------------------------------------
(* C10: the strokes of `strokes` (and of every snapshot that undo or redo  *)
(* can bring back) have pairwise distinct ids; updateStroke keeps the id   *)
(* of every stroke; addStroke, paste and duplicateSelected keep the        *)
(* strokes there are and give each new stroke an id that no stroke has or  *)
(* has had; the removing operations only drop strokes.                     *)
DistinctIds(list) ==
    \A i, j \in 1..Len(list) : i # j => list[i].id # list[j].id

IsSubList(small, big) ==
    small = SelectSeq(big, LAMBDA s : s.id \in IdSet(small))

C10_IdsUniqueAndStable ==
    /\ DistinctIds(strokes)
    /\ \A i \in 1..Len(undoStack) : DistinctIds(undoStack[i])
    /\ \A i \in 1..Len(redoStack) : DistinctIds(redoStack[i])
    /\ IdSet(strokes) \cup IdSet(clipboard) \subseteq KnownIds
    /\ \A r \in UpdateCalls : IdsOf(r.st.strokes) = IdsOf(strokes)
    /\ \A r \in AddCalls \cup PasteCalls \cup DuplicateCalls :
          /\ SubSeq(r.st.strokes, 1, Len(strokes)) = strokes
          /\ \A i \in (Len(strokes) + 1)..Len(r.st.strokes) :
                r.st.strokes[i].id \notin KnownIds
    /\ \A r \in DeleteCalls \cup ClearPageCalls
                \cup {deleteSelectedStrokes(Store), cutSelected(Store)} :
          IsSubList(r.st.strokes, strokes)

(* A stroke has been duplicated: it and its copy are both in strokes.      *)
C10_Witness ==
    /\ lastCall = "duplicateSelected"
    /\ Len(strokes) = 2
    /\ strokes[2].points = <<Pt(30, 30)>>

----------------------------------------------------------------------------
(* C11: in every reachable state of the store the primary selection is    *)
(* the first element of the ordered selection: selectedStrokeId is        *)
(* selectedStrokeIds[0] when the selection is non-empty, and null exactly  *)
(* when it is empty.                                                       *)
C11_PrimaryIsFirstSelected ==
    /\ Len(selectedStrokeIds) > 0 => selectedStrokeId = selectedStrokeIds[1]
    /\ selectedStrokeId = Null <=> Len(selectedStrokeIds) = 0

----------------------------------------------------------------------------
(* C12: the clipboard is an independent snapshot.  No call of addStroke,   *)
(* updateStroke, deleteStroke, deleteSelectedStrokes, clearPage, undo,     *)
(* redo, paste, duplicateSelected or of a selection operation changes the  *)
(* clipboard or any field or point of a stroke in it; copySelected and     *)
(* cutSelected leave it alone when the selection is empty.                 *)
C12_ClipboardIsIndependent ==
    /\ \A r \in AddCalls \cup UpdateCalls \cup DeleteCalls \cup ClearPageCalls
                \cup PasteCalls \cup DuplicateCalls \cup SelectionCalls
                \cup {deleteSelectedStrokes(Store), undo(Store), redo(Store)} :
          r.st.clipboard = clipboard
    /\ Len(selectedStrokeIds) = 0 =>
          /\ copySelected(Store).st.clipboard = clipboard
          /\ cutSelected(Store).st.clipboard = clipboard

(* A copied stroke has since been updated in the list: the clipboard still *)
(* holds its points as they were copied.                                   *)
C12_Witness ==
    /\ lastCall = "updateStroke"
    /\ Len(clipboard) = 1
    /\ \E i \in 1..Len(strokes) :
          /\ strokes[i].id = clipboard[1].id
          /\ strokes[i].points # clipboard[1].points
    /\ clipboard[1].points = <<Pt(10, 10)>>

----------------------------------------------------------------------------
(* The geometry of the Viewer: bounding boxes, hit test, resize handles    *)
(* and rubber-band selection.                                              *)
(*                                                                         *)
(* Points have integer pixel coordinates.  The sides of a bounding box are *)
(* kept in units of 1/Unit pixel, so that 0.85, 0.15, 0.7, 0.55 and 0.6    *)
(* times a font size, and the centre of a box, are whole numbers; a pixel  *)
(* value v is compared with a side as Unit * v.                            *)

Unit == 20

(* n * (hundredths / 100) pixels, in units.                                *)
Times(n, hundredths) == (Unit * hundredths * n) \div 100

(* The null that getStrokeBounds returns.                                  *)
NoBounds == [null |-> TRUE]

min(a, b) == IF a <= b THEN a ELSE b

max(a, b) == IF a >= b THEN a ELSE b

startsWith(str, prefix) ==
    Len(str) >= Len(prefix) /\ SubSeq(str, 1, Len(prefix)) = prefix

(* The model's strings are ASCII: "$" stands for a glyph outside           *)
(* \x00-\x7F (a symbol of the palette), the characters that the test       *)
(* /[^\x00-\x7F]/ accepts.                                                 *)
NonAscii == {"$"}

(* getStrokeBounds, had it given a text stroke no box.                     *)
getStrokeBounds_shapesOnly(stroke) ==
    IF stroke = Undefined \/ Len(stroke.points) < 1 THEN NoBounds
    ELSE IF startsWith(stroke.tool, "shape-") /\ Len(stroke.points) >= 2
    THEN [minX |-> Unit * min(stroke.points[1].x, stroke.points[2].x),
          minY |-> Unit * min(stroke.points[1].y, stroke.points[2].y),
          maxX |-> Unit * max(stroke.points[1].x, stroke.points[2].x),
          maxY |-> Unit * max(stroke.points[1].y, stroke.points[2].y)]
    ELSE NoBounds

getStrokeBounds(stroke) ==
    IF stroke = Undefined \/ Len(stroke.points) < 1 THEN NoBounds
    ELSE IF startsWith(stroke.tool, "shape-") /\ Len(stroke.points) >= 2
    THEN [minX |-> Unit * min(stroke.points[1].x, stroke.points[2].x),
          minY |-> Unit * min(stroke.points[1].y, stroke.points[2].y),
          maxX |-> Unit * max(stroke.points[1].x, stroke.points[2].x),
          maxY |-> Unit * max(stroke.points[1].y, stroke.points[2].y)]
    ELSE IF startsWith(stroke.tool, "text:")
    THEN LET text == SubSeq(stroke.tool, 6, Len(stroke.tool))
             fontSize == max(14, stroke.thickness * 4)
             isMathSymbol == Len(text) = 1 /\ text \in NonAscii
             charWidth == IF isMathSymbol THEN Times(fontSize, 70)
                                          ELSE Times(fontSize, 55)
             textWidth == max(Times(fontSize, 60), Len(text) * charWidth)
         IN  [minX |-> Unit * stroke.points[1].x - Unit,
              minY |-> Unit * stroke.points[1].y - Times(fontSize, 85),
              maxX |-> Unit * stroke.points[1].x + textWidth - Unit,
              maxY |-> Unit * stroke.points[1].y + Times(fontSize, 15)]
    ELSE NoBounds

(* The body of the loop of findStrokeAtPoint: whether the scan returns at  *)
(* this stroke.  dist <= eraserRadius + thickness / 2 is compared squared  *)
(* and doubled: 4 * dist^2 <= (2 * eraserRadius + thickness)^2.            *)
hitsStroke(stroke, point, eraserRadius) ==
    IF stroke.tool = "pen" \/ stroke.tool = "highlighter"
    THEN \E i \in 1..Len(stroke.points) :
            LET p == stroke.points[i]
            IN  4 * ((point.x - p.x) * (point.x - p.x)
                     + (point.y - p.y) * (point.y - p.y))
                  <= (2 * eraserRadius + stroke.thickness)
                       * (2 * eraserRadius + stroke.thickness)
    ELSE LET bounds == getStrokeBounds(stroke)
             padding == eraserRadius
         IN  /\ bounds # NoBounds
             /\ Unit * point.x >= bounds.minX - Unit * padding
             /\ Unit * point.x <= bounds.maxX + Unit * padding
             /\ Unit * point.y >= bounds.minY - Unit * padding
             /\ Unit * point.y <= bounds.maxY + Unit * padding

(* The scan, had it run from the first stroke of the list upwards.         *)
scan_bottomFirst(pageStrokes, i, point, eraserRadius) ==
    LET hits == {j \in 1..i : hitsStroke(pageStrokes[j], point, eraserRadius)}
    IN  IF hits = {} THEN Null
        ELSE pageStrokes[CHOOSE j \in hits : \A k \in hits : j <= k].id

(* for (let i = pageStrokes.length - 1; i >= 0; i--), from index i down.   *)
RECURSIVE scan(_, _, _, _)
scan(pageStrokes, i, point, eraserRadius) ==
    IF i < 1 THEN Null
    ELSE IF hitsStroke(pageStrokes[i], point, eraserRadius) THEN pageStrokes[i].id
    ELSE scan(pageStrokes, i - 1, point, eraserRadius)

(* hitTest of wasm-engine.ts; native is the index engine.hit_test returns. *)
hitTest(eng, native) == IF eng = NoEngine THEN -1 ELSE native

(* findStrokeAtPoint of a Viewer with the store st, the page pageId,       *)
(* the state ready of wasmReady and the engine eng.                        *)
findStrokeAtPoint(st, pageId, ready, eng, native, point, eraserMode) ==
    LET pageStrokes == getPageStrokes(st, pageId)
        eraserRadius == IF eraserMode THEN 15 ELSE 10
    IN  IF ready
        THEN LET idx == hitTest(eng, native)
             IN  IF idx >= 0 /\ idx < Len(pageStrokes)
                 THEN pageStrokes[idx + 1].id
                 ELSE Null
        ELSE scan(pageStrokes, Len(pageStrokes), point, eraserRadius)

(* getResizeCorner, had it left out the padding of the box.                *)
getResizeCorner_noPadding(point, stroke) ==
    LET bounds == getStrokeBounds(stroke)
        half == (Unit * 14) \div 2
        x == Unit * point.x
        y == Unit * point.y
    IN  IF bounds = NoBounds THEN "null"
        ELSE IF /\ x >= bounds.minX - half /\ x <= bounds.minX + half
                /\ y >= bounds.minY - half /\ y <= bounds.minY + half THEN "tl"
        ELSE IF /\ x >= bounds.maxX - half /\ x <= bounds.maxX + half
                /\ y >= bounds.minY - half /\ y <= bounds.minY + half THEN "tr"
        ELSE IF /\ x >= bounds.minX - half /\ x <= bounds.minX + half
                /\ y >= bounds.maxY - half /\ y <= bounds.maxY + half THEN "bl"
        ELSE IF /\ x >= bounds.maxX - half /\ x <= bounds.maxX + half
                /\ y >= bounds.maxY - half /\ y <= bounds.maxY + half THEN "br"
        ELSE "null"

getResizeCorner(point, stroke) ==
    LET bounds == getStrokeBounds(stroke)
        padding == 5
        cornerSize == 14
        half == (Unit * cornerSize) \div 2
        x == Unit * point.x
        y == Unit * point.y
    IN  IF bounds = NoBounds THEN "null"
        ELSE LET boxMinX == bounds.minX - Unit * padding
                 boxMinY == bounds.minY - Unit * padding
                 boxMaxX == bounds.maxX + Unit * padding
                 boxMaxY == bounds.maxY + Unit * padding
             IN  IF /\ x >= boxMinX - half /\ x <= boxMinX + half
                    /\ y >= boxMinY - half /\ y <= boxMinY + half THEN "tl"
                 ELSE IF /\ x >= boxMaxX - half /\ x <= boxMaxX + half
                         /\ y >= boxMinY - half /\ y <= boxMinY + half THEN "tr"
                 ELSE IF /\ x >= boxMinX - half /\ x <= boxMinX + half
                         /\ y >= boxMaxY - half /\ y <= boxMaxY + half THEN "bl"
                 ELSE IF /\ x >= boxMaxX - half /\ x <= boxMaxX + half
                         /\ y >= boxMaxY - half /\ y <= boxMaxY + half THEN "br"
                 ELSE "null"

(* isInside, had it tested the centre of the box and not the overlap.      *)
isInside_centreOnly(stroke, rectMinX, rectMinY, rectMaxX, rectMaxY) ==
    IF stroke.tool = "pen" \/ stroke.tool = "highlighter"
    THEN \E i \in 1..Len(stroke.points) :
            LET p == stroke.points[i]
            IN  p.x >= rectMinX /\ p.x <= rectMaxX /\ p.y >= rectMinY /\ p.y <= rectMaxY
    ELSE LET bounds == getStrokeBounds(stroke)
         IN  /\ bounds # NoBounds
             /\ bounds.minX + bounds.maxX >= 2 * Unit * rectMinX
             /\ bounds.minX + bounds.maxX <= 2 * Unit * rectMaxX
             /\ bounds.minY + bounds.maxY >= 2 * Unit * rectMinY
             /\ bounds.minY + bounds.maxY <= 2 * Unit * rectMaxY

(* The body of the loop of findStrokesInRect: isInside of this stroke.     *)
isInside(stroke, rectMinX, rectMinY, rectMaxX, rectMaxY) ==
    IF stroke.tool = "pen" \/ stroke.tool = "highlighter"
    THEN \E i \in 1..Len(stroke.points) :
            LET p == stroke.points[i]
            IN  p.x >= rectMinX /\ p.x <= rectMaxX /\ p.y >= rectMinY /\ p.y <= rectMaxY
    ELSE LET bounds == getStrokeBounds(stroke)
         IN  /\ bounds # NoBounds
             /\ \/ /\ bounds.minX + bounds.maxX >= 2 * Unit * rectMinX
                   /\ bounds.minX + bounds.maxX <= 2 * Unit * rectMaxX
                   /\ bounds.minY + bounds.maxY >= 2 * Unit * rectMinY
                   /\ bounds.minY + bounds.maxY <= 2 * Unit * rectMaxY
                \/ /\ bounds.minX <= Unit * rectMaxX /\ bounds.maxX >= Unit * rectMinX
                   /\ bounds.minY <= Unit * rectMaxY /\ bounds.maxY >= Unit * rectMinY

findStrokesInRect(st, pageId, start, end) ==
    LET pageStrokes == getPageStrokes(st, pageId)
        rectMinX == min(start.x, end.x)
        rectMinY == min(start.y, end.y)
        rectMaxX == max(start.x, end.x)
        rectMaxY == max(start.y, end.y)
    IN  IdsOf(SelectSeq(pageStrokes,
                LAMBDA stroke : isInside(stroke, rectMinX, rectMinY, rectMaxX, rectMaxY)))

----------------------------------------------------------------------------
(* wasm-engine.ts: the optional acceleration module.                       *)
(*                                                                         *)
(* wasmModule is "null", "imported" once import("wasm-renderer") has       *)
(* resolved, and "initialised" once the module's default() has resolved as *)
(* well.  initWasm assigns wasmModule before it awaits default(), so a     *)
(* default() that rejects leaves the module "imported".  The module itself *)
(* is compiled code outside the sources: what the calls into it return is  *)
(* taken from its declaration and the specification.                       *)

NewEngine == [strokes |-> <<>>, selectedIds |-> <<>>]

createEngine(module) == IF module = "null" THEN NoEngine ELSE NewEngine

(* getFps, had it asked the engine without looking whether there is one.   *)
getFps_noGuard(eng, native) == native

(* native is the number engine.get_fps returns.                            *)
getFps(eng, native) == IF eng = NoEngine THEN 0 ELSE native

(* JSON.stringify of a list of points and JSON.parse of such a text: the   *)
(* text [{"x":1,"y":2},...] is modelled by the list of pairs <<1, 2>>, ... *)
JSONstringify(points) == [i \in 1..Len(points) |-> <<points[i].x, points[i].y>>]

JSONparse(json) == [i \in 1..Len(json) |-> Pt(json[i][1], json[i][2])]

RECURSIVE SubLists(_)
SubLists(list) ==
    IF list = <<>> THEN {<<>>}
    ELSE LET rest == SubLists(Tail(list))
         IN  rest \cup {<<Head(list)>> \o r : r \in rest}

(* RenderEngine.simplify_points: the texts it may return for a polyline,   *)
(* for any tolerance.  A polyline reduction keeps the two end points and   *)
(* drops some of the points between them.                                  *)
simplify_points(json) ==
    IF Len(json) < 2 THEN {json}
    ELSE {<<json[1]>> \o mid \o <<json[Len(json)]>> :
             mid \in SubLists(SubSeq(json, 2, Len(json) - 1))}

(* Whether a call into the module may throw: any call may, and a call into *)
(* a module whose default() has not resolved has no instance to run in and *)
(* does.                                                                   *)
NativeThrows(module) == IF module = "initialised" THEN BOOLEAN ELSE {TRUE}

(* simplifyPoints, had its catch returned an empty list.                   *)
simplifyPoints_emptyOnThrow(module, points, throws, result) ==
    IF module = "null" \/ Len(points) < 3 THEN points
    ELSE IF throws THEN <<>>
    ELSE JSONparse(result)

(* simplifyPoints(points, tolerance); throws and result are the outcome of *)
(* wasmModule.RenderEngine.simplify_points(JSON.stringify(points), ...).   *)
simplifyPoints(module, points, throws, result) ==
    IF module = "null" \/ Len(points) < 3 THEN points
    ELSE IF throws THEN points
    ELSE JSONparse(result)

(* stopDrawing: the points of the freehand stroke it commits.              *)
simplifiedPoints(ready, module, currentStroke, throws, result) ==
    IF ready /\ Len(currentStroke) > 10
    THEN simplifyPoints(module, currentStroke, throws, result)
    ELSE currentStroke

(* Polylines handed to simplifyPoints, and a stroke of 11 raw points as    *)
(* stopDrawing hands it over.                                              *)
PolylineInputs ==
    {<<Pt(0, 0), Pt(10, 0)>>,
     <<Pt(0, 0), Pt(5, 1), Pt(10, 0)>>,
     <<Pt(0, 0), Pt(5, 8), Pt(10, 0), Pt(0, 0)>>}

LongStroke == [i \in 1..11 |-> Pt(10 * i, 5 * (i % 3))]

(* The frame rates engine.get_fps may return.                              *)
NativeFps == {0, 60}

----------------------------------------------------------------------------
(* The Viewer over the store: it commits strokes of every kind and asks    *)
(* the geometry about the strokes of the current page.                     *)

(* The strokes that stopDrawing and handleTextSubmit hand to addStroke:    *)
(* freehand strokes, shapes with their two anchor points, a text and a     *)
(* symbol glyph with their one anchor point.                               *)
ViewerStrokeInputs ==
    {[points |-> <<Pt(25, 25)>>, color |-> "#000000", thickness |-> 2,
      opacity |-> 100, tool |-> "pen", pageId |-> 1],
     [points |-> <<Pt(0, 0), Pt(100, 100)>>, color |-> "#000000", thickness |-> 10,
      opacity |-> 100, tool |-> "highlighter", pageId |-> 1],
     [points |-> <<Pt(0, 0), Pt(100, 50)>>, color |-> "#000000", thickness |-> 2,
      opacity |-> 100, tool |-> "shape-rectangle", pageId |-> 1],
     [points |-> <<Pt(64, 64), Pt(60, 60)>>, color |-> "#000000", thickness |-> 2,
      opacity |-> 100, tool |-> "shape-circle", pageId |-> 1],
     [points |-> <<Pt(20, 30)>>, color |-> "#000000", thickness |-> 5,
      opacity |-> 100, tool |-> "text:Hi", pageId |-> 1],
     [points |-> <<Pt(20, 30)>>, color |-> "#000000", thickness |-> 5,
      opacity |-> 100, tool |-> "text:$", pageId |-> 2]}

(* Pointer positions (getCanvasPoint).                                     *)
PointInputs ==
    {Pt(25, 25), Pt(37, 25), Pt(102, -2), Pt(110, -10), Pt(62, 62), Pt(200, 200)}

(* Rubber bands: rubberBandStart and rubberBandEnd.                        *)
RectInputs ==
    {<<Pt(0, 0), Pt(50, 50)>>, <<Pt(60, 60), Pt(40, 40)>>, <<Pt(150, 150), Pt(200, 200)>>}

(* The indexes engine.hit_test may return.                                 *)
NativeHits == {-1, 0, 1}

(* getStrokeById(id) as the Viewer uses it: the stroke, or undefined.      *)
strokeOrUndefined(st, id) ==
    LET found == getStrokeById(st, id)
    IN  IF Len(found) > 0 THEN found[1] ELSE Undefined

(* A query of the Viewer returned: the store and the engine are as before. *)
Answers(call, value) ==
    /\ lastCall' = call
    /\ ret' = value
    /\ UNCHANGED <<otherVars, storeVars, wasmVars, loopVars>>

(* stopDrawing (handleTextSubmit for a text) commits the finished stroke;  *)
(* the effect on [strokes, ...] then marks the canvas as to be redrawn.    *)
CommitStroke ==
    \E d \in ViewerStrokeInputs :
        /\ IdRoom(1)
        /\ ReturnsStore("addStroke", addStroke(Store, d, nextId))
        /\ nextId' = nextId + 1
        /\ needsRenderRef' = TRUE
        /\ UNCHANGED <<otherVars, wasmVars, isActiveRef, running, lastTime, timestamp, surface,
                   renderDeps, background>>

FindStrokeAtPoint ==
    \E point \in PointInputs, eraserMode \in BOOLEAN, native \in NativeHits :
        Answers("findStrokeAtPoint",
                [point |-> point, eraserMode |-> eraserMode,
                 value |-> findStrokeAtPoint(Store, currentPageId, wasmReady, engine,
                                             native, point, eraserMode)])

GetResizeCorner ==
    \E point \in PointInputs, id \in KnownIds :
        Answers("getResizeCorner",
                [point |-> point, id |-> id,
                 value |-> getResizeCorner(point, strokeOrUndefined(Store, id))])

FindStrokesInRect ==
    \E rect \in RectInputs :
        Answers("findStrokesInRect",
                [start |-> rect[1], end |-> rect[2],
                 value |-> findStrokesInRect(Store, currentPageId, rect[1], rect[2])])

(* The mount effect of the Viewer: init() awaits initWasm(), which awaits  *)
(* import("wasm-renderer") and then the module's default().  On success    *)
(* init() goes on to createEngine and setWasmReady(true).                  *)
ImportResolves ==
    /\ initPc = "import"
    /\ wasmModule' = "imported"
    /\ initPc' = "default"
    /\ UNCHANGED <<otherVars, storeVars, lastCall, ret, engine, wasmReady, loopVars>>

ImportRejects ==
    /\ initPc = "import"
    /\ initPc' = "done"
    /\ lastCall' = "initWasm"
    /\ ret' = "false"
    /\ UNCHANGED <<otherVars, storeVars, wasmModule, engine, wasmReady, loopVars>>

DefaultResolves ==
    /\ initPc = "default"
    /\ wasmModule' = "initialised"
    /\ engine' = createEngine("initialised")
    /\ wasmReady' = TRUE
    /\ initPc' = "done"
    /\ lastCall' = "initWasm"
    /\ ret' = "true"
    /\ renderDeps' = renderDeps \cup {"wasmReady"}
    /\ UNCHANGED <<otherVars, storeVars, needsRenderRef, isActiveRef, running, lastTime,
                   timestamp, surface, background>>

DefaultRejects ==
    /\ initPc = "default"
    /\ initPc' = "done"
    /\ lastCall' = "initWasm"
    /\ ret' = "false"
    /\ UNCHANGED <<otherVars, storeVars, wasmModule, engine, wasmReady, loopVars>>

(* The callback of the one-second interval asks for the frame rate.        *)
GetFps ==
    \E native \in NativeFps :
        Answers("getFps", [value |-> getFps(engine, native)])

SimplifyPoints ==
    \E points \in PolylineInputs \cup {LongStroke}, throws \in NativeThrows(wasmModule) :
        \E result \in simplify_points(JSONstringify(points)) :
            Answers("simplifyPoints",
                    [points |-> points, throws |-> throws,
                     value |-> simplifyPoints(wasmModule, points, throws, result)])

ViewerNext ==
    \/ CommitStroke
    \/ FindStrokeAtPoint
    \/ GetResizeCorner
    \/ FindStrokesInRect
    \/ ImportResolves
    \/ ImportRejects
    \/ DefaultResolves
    \/ DefaultRejects
    \/ GetFps

ViewerSpec == Init /\ [][ViewerNext]_vars

----------------------------------------------------------------------------
(* The render loop of the Viewer.  Time is counted in thirds of a          *)
(* millisecond, so that the frame time 1000 / 60 ms is the whole number    *)
(* targetFrameTime.                                                        *)

targetFrameTime == 50

(* The end of the modelled time.                                           *)
MaxTime == 100

(* The time between two animation frames: less than a frame time, or one.  *)
TimeSteps == {40, 50}

(* The strokes effect of a Viewer with the module: in the next animation   *)
(* frame it loads the strokes of the page into the engine and marks the    *)
(* canvas.                                                                 *)
SyncStrokes ==
    /\ wasmReady
    /\ engine # NoEngine
    /\ \/ engine.strokes # getPageStrokes(Store, currentPageId)
       \/ engine.selectedIds # selectedStrokeIds
    /\ engine' = [strokes |-> getPageStrokes(Store, currentPageId),
                  selectedIds |-> selectedStrokeIds]
    /\ needsRenderRef' = TRUE
    /\ UNCHANGED <<otherVars, storeVars, lastCall, ret, wasmModule, wasmReady, initPc,
                   isActiveRef, running, lastTime, timestamp, surface,
                   renderDeps, background>>

(* The rubber band of stopDrawing selects strokes; the effect on           *)
(* [strokes, selectedStrokeId, ...] marks the canvas when the primary      *)
(* selection is another one.                                               *)
RubberBandSelect ==
    \E rect \in RectInputs :
        LET selectedIds == findStrokesInRect(Store, currentPageId, rect[1], rect[2])
            r == selectStrokes(Store, selectedIds)
        IN  /\ Len(selectedIds) > 0
            /\ ReturnsStore("selectStrokes", r)
            /\ needsRenderRef' = (needsRenderRef \/ r.st.selectedStrokeId # selectedStrokeId)
            /\ UNCHANGED <<otherVars, nextId, wasmVars, isActiveRef, running, lastTime,
                           timestamp, surface,
                   renderDeps, background>>

(* draw moves the stroke in progress or the preview of a shape or symbol;  *)
(* the effect on [..., currentStroke, shapeStart, shapeEnd, symbolStart,   *)
(* symbolEnd] marks the canvas.                                            *)
Draw ==
    /\ lastCall' = "draw"
    /\ ret' = "undefined"
    /\ needsRenderRef' = TRUE
    /\ UNCHANGED <<otherVars, storeVars, wasmVars, isActiveRef, running, lastTime,
                   timestamp, surface,
                   renderDeps, background>>

(* The effect on [isDrawing, isPanning, isDragging, isResizing].           *)
SetActive ==
    /\ isActiveRef' = ~isActiveRef
    /\ UNCHANGED <<otherVars, storeVars, lastCall, ret, wasmVars,
                   needsRenderRef, running, lastTime, timestamp, surface,
                   renderDeps, background>>

(* The set-up of the offscreen buffer in the render-loop effect.  An       *)
(* assignment to the width or height of a canvas clears it.                *)
pdfCanvasSetup(image, last, width, height) ==
    IF image # 0 /\ image # last
    THEN [pdfCanvas |-> [width |-> width, height |-> height, image |-> image],
          lastPdfImageRef |-> image,
          marks |-> TRUE]
    ELSE [pdfCanvas |-> [width |-> width, height |-> height, image |-> 0],
          lastPdfImageRef |-> last,
          marks |-> FALSE]

(* The render-loop effect, run by React after one of [wasmReady, pdfImage, *)
(* canvasWidth, canvasHeight] has changed: it returns at once without the  *)
(* module; with it it sets the offscreen buffer up, marks the canvas when  *)
(* it drew a new page image, and (re)starts the loop, lastTime = 0.        *)
RenderEffect ==
    /\ renderDeps # {}
    /\ renderDeps' = {}
    /\ IF ~wasmReady
       THEN UNCHANGED <<running, lastTime, needsRenderRef, pdfCanvas, lastPdfImageRef,
                        loopPdfImage>>
       ELSE LET setup == pdfCanvasSetup(pdfImage, lastPdfImageRef, canvasWidth,
                                        canvasHeight)
            IN  /\ running' = TRUE
                /\ lastTime' = 0
                /\ pdfCanvas' = setup.pdfCanvas
                /\ lastPdfImageRef' = setup.lastPdfImageRef
                /\ needsRenderRef' = (needsRenderRef \/ setup.marks)
                /\ loopPdfImage' = pdfImage
    /\ UNCHANGED <<storeVars, lastCall, ret, wasmVars, isActiveRef, timestamp, surface,
                   background, pdfVars, prefetchVars, gestureVars, currentPageImage,
                   pdfImage, loading, nextImage, canvasWidth, canvasHeight>>

(* What a redraw of the loop draws underneath the strokes:                 *)
(* if (pdfImage) ctx.drawImage(pdfCanvas, 0, 0).                           *)
drawBackground(loop) ==
    IF loop.pdfImage # 0
    THEN [drawn |-> TRUE, image |-> loop.pdfCanvas.image]
    ELSE NoBackground

(* render of wasm-engine.ts: what the canvas shows after it.               *)
render(eng, canvas) == IF eng = NoEngine THEN canvas ELSE eng.strokes

(* renderLoop, had it throttled the active frames as well.                 *)
renderLoop_throttlesActive(loop, time) ==
    LET delta == time - loop.lastTime
    IN  IF delta >= targetFrameTime
        THEN IF loop.needsRenderRef \/ loop.isActiveRef
             THEN [lastTime |-> time, needsRenderRef |-> FALSE,
                   surface |-> render(loop.engine, loop.surface), redrawn |-> TRUE,
                   background |-> drawBackground(loop)]
             ELSE [lastTime |-> time, needsRenderRef |-> loop.needsRenderRef,
                   surface |-> loop.surface, redrawn |-> FALSE,
                   background |-> loop.background]
        ELSE [lastTime |-> loop.lastTime, needsRenderRef |-> loop.needsRenderRef,
              surface |-> loop.surface, redrawn |-> FALSE,
              background |-> loop.background]

(* renderLoop, had it cleared the dirty flag on every accepted tick.       *)
renderLoop_clearsWithoutDraw(loop, time) ==
    LET delta == time - loop.lastTime
    IN  IF delta >= targetFrameTime \/ loop.isActiveRef
        THEN IF loop.isActiveRef
             THEN [lastTime |-> time, needsRenderRef |-> FALSE,
                   surface |-> render(loop.engine, loop.surface), redrawn |-> TRUE,
                   background |-> drawBackground(loop)]
             ELSE [lastTime |-> time, needsRenderRef |-> FALSE,
                   surface |-> loop.surface, redrawn |-> FALSE,
                   background |-> loop.background]
        ELSE [lastTime |-> loop.lastTime, needsRenderRef |-> loop.needsRenderRef,
              surface |-> loop.surface, redrawn |-> FALSE,
              background |-> loop.background]

(* One run of renderLoop(timestamp) on the refs and the closure  loop :    *)
(* what it leaves, and whether it called wasmEngine.render.                *)
renderLoop(loop, time) ==
    LET delta == time - loop.lastTime
    IN  IF delta >= targetFrameTime \/ loop.isActiveRef
        THEN IF loop.needsRenderRef \/ loop.isActiveRef
             THEN [lastTime |-> time, needsRenderRef |-> FALSE,
                   surface |-> render(loop.engine, loop.surface), redrawn |-> TRUE,
                   background |-> drawBackground(loop)]
             ELSE [lastTime |-> time, needsRenderRef |-> loop.needsRenderRef,
                   surface |-> loop.surface, redrawn |-> FALSE,
                   background |-> loop.background]
        ELSE [lastTime |-> loop.lastTime, needsRenderRef |-> loop.needsRenderRef,
              surface |-> loop.surface, redrawn |-> FALSE,
              background |-> loop.background]

Loop ==
    [lastTime |-> lastTime, needsRenderRef |-> needsRenderRef,
     isActiveRef |-> isActiveRef, engine |-> engine, surface |-> surface,
     pdfImage |-> loopPdfImage, pdfCanvas |-> pdfCanvas, background |-> background]

(* An animation frame of the running loop.                                 *)
Tick ==
    \E step \in TimeSteps :
        LET after == renderLoop(Loop, timestamp + step)
        IN  /\ running
            /\ timestamp + step <= MaxTime
            /\ timestamp' = timestamp + step
            /\ lastTime' = after.lastTime
            /\ needsRenderRef' = after.needsRenderRef
            /\ surface' = after.surface
            /\ background' = after.background
            /\ lastCall' = "renderLoop"
            /\ ret' = IF after.redrawn THEN "true" ELSE "false"
            /\ UNCHANGED <<otherVars, storeVars, wasmVars, isActiveRef, running,
                           renderDeps>>

RenderNext ==
    \/ ImportResolves
    \/ ImportRejects
    \/ DefaultResolves
    \/ DefaultRejects
    \/ CommitStroke
    \/ RubberBandSelect
    \/ Draw
    \/ SyncStrokes
    \/ SetActive
    \/ RenderEffect
    \/ Tick

RenderSpec == Init /\ [][RenderNext]_vars

(* The browser settles the import and the default() of the module, runs    *)
(* the effects of a render and calls back every requested animation frame. *)
FairRenderSpec ==
    /\ RenderSpec
    /\ WF_initPc(ImportResolves \/ ImportRejects)
    /\ WF_initPc(DefaultResolves \/ DefaultRejects)
    /\ WF_engine(SyncStrokes)
    /\ WF_timestamp(Tick)

(* Bound of the model: the Images that are made of page images.           *)
MaxImages == 2

(* Math.round of the width and height of currentPageMeta: the pages of a   *)
(* document need not have the same size.                                   *)
PageSizes == {<<595, 842>>, <<842, 595>>}

(* A render of the Viewer with another currentPageMeta or another          *)
(* currentPageImage (after a navigation, the end of a fetch or the opening *)
(* of a document), with the effect on [currentPageImage]: it makes an      *)
(* Image of a page image and waits for its onload, and calls               *)
(* setPdfImage(null) when the page has no image any more.                  *)
PageImageChanges ==
    \E size \in PageSizes, cached \in BOOLEAN :
        /\ canvasWidth' = size[1]
        /\ canvasHeight' = size[2]
        /\ IF cached
           THEN /\ nextImage <= MaxImages
                /\ currentPageImage' = nextImage
                /\ loading' = loading \cup {nextImage}
                /\ nextImage' = nextImage + 1
                /\ UNCHANGED pdfImage
           ELSE /\ currentPageImage' = 0
                /\ pdfImage' = IF currentPageImage # 0 THEN 0 ELSE pdfImage
                /\ UNCHANGED <<loading, nextImage>>
        /\ <<canvasWidth', canvasHeight', currentPageImage'>>
              # <<canvasWidth, canvasHeight, currentPageImage>>
        /\ renderDeps' = renderDeps
              \cup (IF canvasWidth' # canvasWidth THEN {"canvasWidth"} ELSE {})
              \cup (IF canvasHeight' # canvasHeight THEN {"canvasHeight"} ELSE {})
              \cup (IF pdfImage' # pdfImage THEN {"pdfImage"} ELSE {})
        /\ UNCHANGED <<storeVars, lastCall, ret, wasmVars, needsRenderRef, isActiveRef,
                       running, lastTime, timestamp, surface, background, pdfVars,
                       prefetchVars, gestureVars, pdfCanvas, lastPdfImageRef, loopPdfImage>>

(* img.onload = () => setPdfImage(img)                                     *)
ImageOnload ==
    \E img \in loading :
        /\ pdfImage' = img
        /\ loading' = loading \ {img}
        /\ renderDeps' = renderDeps \cup {"pdfImage"}
        /\ UNCHANGED <<storeVars, lastCall, ret, wasmVars, needsRenderRef, isActiveRef,
                       running, lastTime, timestamp, surface, background, pdfVars,
                       prefetchVars, gestureVars, currentPageImage, nextImage,
                       canvasWidth, canvasHeight, pdfCanvas, lastPdfImageRef,
                       loopPdfImage>>

(* The render loop over the page image, while no gesture is in progress.   *)
CanvasNext ==
    \/ ImportResolves
    \/ ImportRejects
    \/ DefaultResolves
    \/ DefaultRejects
    \/ CommitStroke
    \/ SyncStrokes
    \/ PageImageChanges
    \/ ImageOnload
    \/ RenderEffect
    \/ Tick

CanvasSpec == Init /\ [][CanvasNext]_vars

(* The module alone, and the polylines given to simplifyPoints.            *)
WasmNext ==
    \/ ImportResolves
    \/ ImportRejects
    \/ DefaultResolves
    \/ DefaultRejects
    \/ SimplifyPoints

WasmSpec == Init /\ [][WasmNext]_vars

----------------------------------------------------------------------------
(* C13: the in-process hit test is topmost-wins.  When several strokes of  *)
(* the page cover the point, findStrokeAtPoint returns the id of the one   *)
(* that was added last, whatever their distances to the point; it returns  *)
(* null when none covers it.                                               *)
C13_TopmostWins ==
    ~wasmReady =>
    \A point \in PointInputs, eraserMode \in BOOLEAN, native \in NativeHits :
        LET pageStrokes == getPageStrokes(Store, currentPageId)
            radius == IF eraserMode THEN 15 ELSE 10
            covering == {i \in 1..Len(pageStrokes) :
                            hitsStroke(pageStrokes[i], point, radius)}
            found == findStrokeAtPoint(Store, currentPageId, wasmReady, engine,
                                       native, point, eraserMode)
        IN  /\ covering = {} => found = Null
            /\ \A a, b \in covering : a < b => found # pageStrokes[a].id
            /\ \A b \in covering :
                  (\A k \in covering : k <= b) => found = pageStrokes[b].id

(* A pen stroke with a point at (25,25) lies under a rectangle that covers *)
(* (25,25): the hit test at (25,25) has returned the rectangle.            *)
C13_Witness ==
    /\ lastCall = "findStrokeAtPoint"
    /\ ~wasmReady
    /\ Len(strokes) = 2
    /\ strokes[1].tool = "pen"
    /\ strokes[1].points = <<Pt(25, 25)>>
    /\ strokes[2].tool = "shape-rectangle"
    /\ ret.point = Pt(25, 25)
    /\ ret.value = strokes[2].id

----------------------------------------------------------------------------
(* C14: rubber-band selection.  The statement of the claim speaks of the   *)
(* bounding box of every stroke; for a freehand stroke that is the         *)
(* envelope of its sample points.                                          *)

IsFreehand(stroke) == stroke.tool \in {"pen", "highlighter"}

(* The least and greatest coordinates of the points, in units.             *)
Envelope(points) ==
    [minX |-> Unit * (CHOOSE v \in {points[i].x : i \in 1..Len(points)} :
                         \A j \in 1..Len(points) : v <= points[j].x),
     minY |-> Unit * (CHOOSE v \in {points[i].y : i \in 1..Len(points)} :
                         \A j \in 1..Len(points) : v <= points[j].y),
     maxX |-> Unit * (CHOOSE v \in {points[i].x : i \in 1..Len(points)} :
                         \A j \in 1..Len(points) : v >= points[j].x),
     maxY |-> Unit * (CHOOSE v \in {points[i].y : i \in 1..Len(points)} :
                         \A j \in 1..Len(points) : v >= points[j].y)]

BoxOf(stroke) ==
    IF IsFreehand(stroke) THEN Envelope(stroke.points) ELSE getStrokeBounds(stroke)

(* The rectangle spanned by the corners a and b, whichever comes first.    *)
SampleInRect(stroke, a, b) ==
    \E i \in 1..Len(stroke.points) :
        /\ \/ a.x <= stroke.points[i].x /\ stroke.points[i].x <= b.x
           \/ b.x <= stroke.points[i].x /\ stroke.points[i].x <= a.x
        /\ \/ a.y <= stroke.points[i].y /\ stroke.points[i].y <= b.y
           \/ b.y <= stroke.points[i].y /\ stroke.points[i].y <= a.y

CentreInRect(box, a, b) ==
    /\ \/ 2 * Unit * a.x <= box.minX + box.maxX /\ box.minX + box.maxX <= 2 * Unit * b.x
       \/ 2 * Unit * b.x <= box.minX + box.maxX /\ box.minX + box.maxX <= 2 * Unit * a.x
    /\ \/ 2 * Unit * a.y <= box.minY + box.maxY /\ box.minY + box.maxY <= 2 * Unit * b.y
       \/ 2 * Unit * b.y <= box.minY + box.maxY /\ box.minY + box.maxY <= 2 * Unit * a.y

(* The box and the rectangle are not apart along either axis.              *)
OverlapsRect(box, a, b) ==
    /\ ~(box.maxX < Unit * a.x /\ box.maxX < Unit * b.x)
    /\ ~(box.minX > Unit * a.x /\ box.minX > Unit * b.x)
    /\ ~(box.maxY < Unit * a.y /\ box.maxY < Unit * b.y)
    /\ ~(box.minY > Unit * a.y /\ box.minY > Unit * b.y)

(* C14 as stated: a stroke of the current page is selected if and only if  *)
(* one of its freehand sample points lies inside the rectangle, or the     *)
(* centre of its bounding box does, or its bounding box overlaps the       *)
(* rectangle.                                                              *)
C14_RectSelectThreeWayOr ==
    \A rect \in RectInputs :
        LET pageStrokes == getPageStrokes(Store, currentPageId)
            result == findStrokesInRect(Store, currentPageId, rect[1], rect[2])
        IN  \A i \in 1..Len(pageStrokes) :
                LET stroke == pageStrokes[i]
                    box == BoxOf(stroke)
                IN  Includes(result, stroke.id) <=>
                        \/ IsFreehand(stroke) /\ SampleInRect(stroke, rect[1], rect[2])
                        \/ box # NoBounds /\ CentreInRect(box, rect[1], rect[2])
                        \/ box # NoBounds /\ OverlapsRect(box, rect[1], rect[2])

(* C14 as amended: the selection is, in page order, the freehand strokes   *)
(* of the current page with a sample point inside the rectangle and the    *)
(* shape and text strokes whose box has its centre inside the rectangle or *)
(* overlaps it.  The pen point at (25,25) is selected by (0,0)-(50,50); a  *)
(* freehand stroke with no sample point inside is not selected, though its *)
(* envelope overlaps the rectangle.                                        *)
C14_RectSelectByKind ==
    \A rect \in RectInputs :
        LET pageStrokes == getPageStrokes(Store, currentPageId)
            result == findStrokesInRect(Store, currentPageId, rect[1], rect[2])
        IN  /\ result = IdsOf(SelectSeq(pageStrokes, LAMBDA stroke :
                    IF IsFreehand(stroke)
                    THEN SampleInRect(stroke, rect[1], rect[2])
                    ELSE /\ getStrokeBounds(stroke) # NoBounds
                         /\ \/ CentreInRect(getStrokeBounds(stroke), rect[1], rect[2])
                            \/ OverlapsRect(getStrokeBounds(stroke), rect[1], rect[2])))
            /\ \A i \in 1..Len(pageStrokes) :
                  /\ (/\ pageStrokes[i].tool = "pen"
                      /\ pageStrokes[i].points = <<Pt(25, 25)>>
                      /\ rect = <<Pt(0, 0), Pt(50, 50)>>)
                        => Includes(result, pageStrokes[i].id)
                  /\ (/\ IsFreehand(pageStrokes[i])
                      /\ ~SampleInRect(pageStrokes[i], rect[1], rect[2]))
                        => ~Includes(result, pageStrokes[i].id)

(* The rubber band (60,60)-(40,40) has been released over a highlighter    *)
(* stroke from (0,0) to (100,100) and a rectangle (0,0)-(100,50): only the *)
(* rectangle, whose box overlaps the band, is selected.                    *)
C14_Witness ==
    /\ lastCall = "findStrokesInRect"
    /\ Len(strokes) = 2
    /\ strokes[1].tool = "highlighter"
    /\ strokes[2].tool = "shape-rectangle"
    /\ ret.start = Pt(60, 60)
    /\ ret.end = Pt(40, 40)
    /\ ret.value = <<strokes[2].id>>
    /\ OverlapsRect(Envelope(strokes[1].points), ret.start, ret.end)
    /\ ~CentreInRect(getStrokeBounds(strokes[2]), ret.start, ret.end)

----------------------------------------------------------------------------
(* C15: getResizeCorner returns the first of tl, tr, bl, br whose handle   *)
(* contains the point, a handle being the 14x14 square centred on that     *)
(* corner of the bounding box widened by 5 on every side; it returns null  *)
(* when no handle contains the point or the stroke has no bounding box.    *)
(* For the rectangle (0,0)-(100,50) the point (102,-2) gives tr, and where *)
(* the four handles of a small shape overlap the answer is tl.             *)

Abs(v) == IF v >= 0 THEN v ELSE -v

(* The point is in the 14x14 square centred on (cx, cy), given in units.   *)
InHandle(point, cx, cy) ==
    Abs(Unit * point.x - cx) <= 7 * Unit /\ Abs(Unit * point.y - cy) <= 7 * Unit

C15_ResizeCornerFirstHandle ==
    /\ \A point \in PointInputs, id \in KnownIds :
          LET stroke == strokeOrUndefined(Store, id)
              box == getStrokeBounds(stroke)
              corner == getResizeCorner(point, stroke)
              left == box.minX - 5 * Unit
              right == box.maxX + 5 * Unit
              top == box.minY - 5 * Unit
              bottom == box.maxY + 5 * Unit
          IN  IF box = NoBounds THEN corner = "null"
              ELSE /\ corner = "tl" <=> InHandle(point, left, top)
                   /\ corner = "tr" <=> /\ InHandle(point, right, top)
                                        /\ ~InHandle(point, left, top)
                   /\ corner = "bl" <=> /\ InHandle(point, left, bottom)
                                        /\ ~InHandle(point, left, top)
                                        /\ ~InHandle(point, right, top)
                   /\ corner = "br" <=> /\ InHandle(point, right, bottom)
                                        /\ ~InHandle(point, left, top)
                                        /\ ~InHandle(point, right, top)
                                        /\ ~InHandle(point, left, bottom)
                   /\ corner \in {"tl", "tr", "bl", "br", "null"}
    /\ \A i \in 1..Len(strokes) :
          /\ (strokes[i].tool = "shape-rectangle"
              /\ strokes[i].points = <<Pt(0, 0), Pt(100, 50)>>)
                => getResizeCorner(Pt(102, -2), strokes[i]) = "tr"
          /\ (strokes[i].tool = "shape-circle"
              /\ strokes[i].points = <<Pt(64, 64), Pt(60, 60)>>)
                => getResizeCorner(Pt(62, 62), strokes[i]) = "tl"

(* The handle at the top right of the rectangle (0,0)-(100,50) has been    *)
(* found at (102,-2).                                                      *)
C15_Witness ==
    /\ lastCall = "getResizeCorner"
    /\ ret.point = Pt(102, -2)
    /\ ret.value = "tr"
    /\ \E i \in 1..Len(strokes) :
          /\ strokes[i].id = ret.id
          /\ strokes[i].points = <<Pt(0, 0), Pt(100, 50)>>

----------------------------------------------------------------------------
(* C16 as stated: getStrokeBounds returns null only for a stroke without   *)
(* points; every stroke with at least one point, freehand, shape or text,  *)
(* has a box.                                                              *)
C16_BoxForEveryKind ==
    \A i \in 1..Len(strokes) :
        getStrokeBounds(strokes[i]) = NoBounds <=> Len(strokes[i].points) = 0

(* C16 as amended: getStrokeBounds returns a box for every shape stroke    *)
(* with at least two points (the envelope of its first two points) and for *)
(* every text stroke with at least one point (a box of positive width and  *)
(* height around the baseline of the anchor); it returns null for a        *)
(* missing stroke and for every freehand stroke, whatever its points.      *)
C16_BoxByKind ==
    /\ getStrokeBounds(Undefined) = NoBounds
    /\ \A i \in 1..Len(strokes) :
          LET stroke == strokes[i]
              box == getStrokeBounds(stroke)
          IN  /\ IsFreehand(stroke) => box = NoBounds
              /\ (stroke.tool \in {"shape-rectangle", "shape-circle"}
                  /\ Len(stroke.points) >= 2)
                    => box = Envelope(SubSeq(stroke.points, 1, 2))
              /\ (stroke.tool \in {"text:Hi", "text:$"} /\ Len(stroke.points) >= 1)
                    => /\ box # NoBounds
                       /\ box.minX < box.maxX
                       /\ box.minY < Unit * stroke.points[1].y
                       /\ Unit * stroke.points[1].y < box.maxY
                       /\ box.minX = Unit * (stroke.points[1].x - 1)
              /\ stroke.tool = "text:Hi" =>
                    box = [minX |-> Unit * 19, minY |-> Unit * 13,
                           maxX |-> Unit * 41, maxY |-> Unit * 33]

(* A text stroke and a pen stroke are on the canvas and the resize handles *)
(* of the pen stroke have been asked for: it has no box, so no handle.     *)
C16_Witness ==
    /\ lastCall = "getResizeCorner"
    /\ ret.value = "null"
    /\ Len(strokes) = 2
    /\ strokes[1].tool = "text:Hi"
    /\ strokes[2].tool = "pen"
    /\ ret.id = strokes[2].id
    /\ Len(strokes[2].points) = 1
    /\ getStrokeBounds(strokes[1]) # NoBounds

----------------------------------------------------------------------------
(* C17: for a polyline P of at least 2 points simplifyPoints returns a     *)
(* list that begins with the first point of P, ends with its last point    *)
(* and is no longer than P, on every path: when the module is not loaded,  *)
(* when P has fewer than 3 points and when the native call throws the      *)
(* list is P itself.  The same holds of the points stopDrawing commits.    *)
C17_SimplifyKeepsEndpoints ==
    \A P \in PolylineInputs \cup {LongStroke}, throws \in BOOLEAN :
        \A result \in simplify_points(JSONstringify(P)) :
            LET out == simplifyPoints(wasmModule, P, throws, result)
                committed == simplifiedPoints(wasmReady, wasmModule, P, throws, result)
            IN  /\ Len(out) >= 1
                /\ out[1] = P[1]
                /\ out[Len(out)] = P[Len(P)]
                /\ Len(out) <= Len(P)
                /\ (wasmModule = "null" \/ Len(P) < 3 \/ throws) => out = P
                /\ Len(committed) >= 1
                /\ committed[1] = P[1]
                /\ committed[Len(committed)] = P[Len(P)]
                /\ Len(committed) <= Len(P)

(* The module is initialised and has reduced the stroke of 11 raw points   *)
(* to fewer points.                                                        *)
C17_Witness ==
    /\ lastCall = "simplifyPoints"
    /\ wasmModule = "initialised"
    /\ ret.points = LongStroke
    /\ ~ret.throws
    /\ Len(ret.value) < Len(ret.points)
    /\ ret.value[1] = LongStroke[1]

----------------------------------------------------------------------------
(* C18: when the initialisation of the module fails, initWasm resolves to  *)
(* false, wasmReady stays false, hitTest returns -1, getFps returns 0,     *)
(* simplifyPoints returns its input, and findStrokeAtPoint answers with    *)
(* the in-process scan of the strokes of the page.                         *)
C18_InitFailureFallsBack ==
    (initPc = "done" /\ wasmModule # "initialised") =>
        /\ lastCall = "initWasm" => ret = "false"
        /\ ~wasmReady
        /\ engine = NoEngine
        /\ \A native \in NativeHits : hitTest(engine, native) = -1
        /\ \A native \in NativeFps : getFps(engine, native) = 0
        /\ \A P \in PolylineInputs, throws \in NativeThrows(wasmModule) :
              \A result \in simplify_points(JSONstringify(P)) :
                  simplifyPoints(wasmModule, P, throws, result) = P
        /\ \A point \in PointInputs, eraserMode \in BOOLEAN, native \in NativeHits :
              LET pageStrokes == getPageStrokes(Store, currentPageId)
              IN  findStrokeAtPoint(Store, currentPageId, wasmReady, engine,
                                    native, point, eraserMode)
                    = scan(pageStrokes, Len(pageStrokes), point,
                           IF eraserMode THEN 15 ELSE 10)

(* The module was imported but its default() rejected; a hit test has then *)
(* found a stroke of the page by the in-process scan.                      *)
C18_Witness ==
    /\ initPc = "done"
    /\ wasmModule = "imported"
    /\ ~wasmReady
    /\ lastCall = "findStrokeAtPoint"
    /\ Len(strokes) > 0
    /\ ret.value = strokes[Len(strokes)].id

----------------------------------------------------------------------------
(* C19: rendering does not depend on the module.  While the module is      *)
(* unavailable (its initialisation failed or has not resolved yet), a      *)
(* change to the committed strokes of the current page is eventually       *)
(* followed by a redraw that shows them.                                   *)
C19_RedrawWithoutModule ==
    (~wasmReady /\ surface # getPageStrokes(Store, currentPageId))
        ~> (wasmReady \/ surface = getPageStrokes(Store, currentPageId))

----------------------------------------------------------------------------
(* C20: on every tick of the render loop the surface is redrawn if the     *)
(* active flag is set, whatever the elapsed time and the dirty flag; with  *)
(* the active flag clear it is redrawn if and only if at least one frame   *)
(* time has passed since the last accepted tick (lastTime) and the dirty   *)
(* flag is set.  A redraw shows the strokes of the engine and clears the   *)
(* dirty flag; a tick without redraw leaves the surface as it is.          *)
C20_TickRule ==
    [][timestamp' # timestamp =>
          /\ ret' = "true" <=>
                \/ isActiveRef
                \/ timestamp' - lastTime >= targetFrameTime /\ needsRenderRef
          /\ ret' = "true" => surface' = engine.strokes /\ ~needsRenderRef'
          /\ ret' = "false" => surface' = surface /\ needsRenderRef' = needsRenderRef
          /\ lastTime' = IF isActiveRef \/ timestamp' - lastTime >= targetFrameTime
                         THEN timestamp' ELSE lastTime]_timestamp

(* The first animation frame came 40 thirds of a millisecond after the     *)
(* loop started, less than a frame time, and redrew: the user was drawing. *)
C20_Witness ==
    /\ lastCall = "renderLoop"
    /\ timestamp = 40
    /\ lastTime = 40
    /\ ret = "true"
    /\ Len(surface) > 0

----------------------------------------------------------------------------
(* The last step was a tick of the render loop that redrew the surface.    *)
Redrawn == lastCall = "renderLoop" /\ ret = "true"

(* The engine does not hold the strokes of the page and the selection.     *)
OutOfSync ==
    /\ engine # NoEngine
    /\ \/ engine.strokes # getPageStrokes(Store, currentPageId)
       \/ engine.selectedIds # selectedStrokeIds

(* The modelled time has no room for one more animation frame.             *)
TimeIsUp == \A step \in TimeSteps : timestamp + step > MaxTime

----------------------------------------------------------------------------
(* The page prefetch of the Viewer, usePdfStore and handleOpenPdf.         *)
(*                                                                         *)
(* renderedPages, a Map<number, string>, is the set of its entries.  A     *)
(* request is a call of loadPage that has not returned to processQueue:    *)
(* pc is "flight" while renderPdfPage is awaited and "returned" once       *)
(* loadPage is over; cancelled is the variable of the effect run that      *)
(* made the call.  The callback of a cancelled run's setTimeout returns at *)
(* its first line, so the cleanup drops the pending timers.                *)

(* The documents that can be opened, and the page numbers of each.         *)
Paths == {"a.pdf", "b.pdf"}

PagesOfDocument == <<1, 2, 3>>

PageNumbers == {PagesOfDocument[i] : i \in 1..Len(PagesOfDocument)}

(* What the open dialog, the document, the stores and the render loop are  *)
(* to the prefetch: left alone.                                            *)
viewVars == <<storeVars, lastCall, ret, wasmVars, loopVars, gestureVars, canvasVars>>

has(map, pageNumber) == \E e \in map : e.pageNumber = pageNumber

(* setRenderedPage, had it started from an empty Map.                      *)
setRenderedPage_freshMap(map, pageNumber, imageData) ==
    {[pageNumber |-> pageNumber, imageData |-> imageData]}

setRenderedPage(map, pageNumber, imageData) ==
    {e \in map : e.pageNumber # pageNumber}
        \cup {[pageNumber |-> pageNumber, imageData |-> imageData]}

(* image_data of the page pageNum of the document at path.                 *)
image_data(path, pageNum) == <<path, pageNum>>

(* pagesMeta.find(p => p.pageNumber === currentPage) found an entry.       *)
currentPageMeta == \E i \in 1..Len(pagesMeta) : pagesMeta[i] = currentPage

(* The queue of the effect, had it taken the cached pages as well.         *)
requestList_keepsCached(N, meta, cached) ==
    LET total == Len(meta)
        withPrev == IF N > 1 THEN <<N, N - 1>> ELSE <<N>>
    IN  IF N < total THEN Append(withPrev, N + 1) ELSE withPrev

(* The queue the effect builds for the page N.                             *)
requestList(N, meta, cached) ==
    LET total == Len(meta)
        own == IF ~has(cached, N) THEN <<N>> ELSE <<>>
        withPrev == IF N > 1 /\ ~has(cached, N - 1) THEN Append(own, N - 1) ELSE own
    IN  IF N < total /\ ~has(cached, N + 1) THEN Append(withPrev, N + 1) ELSE withPrev

(* loadPage(pageNum) up to its first await, in the effect run with the     *)
(* closure cl: the request it leaves.                                      *)
loadPage(cl, cancelled, pageNum) ==
    [pageNum |-> pageNum, pdfPath |-> cl.pdfPath, cancelled |-> cancelled,
     pc |-> IF cancelled \/ has(cl.renderedPages, pageNum) THEN "returned" ELSE "flight"]

(* loadPage after its awaits, had it not looked at cancelled.              *)
loadPage_resolved_ignoresCancelled(map, r) ==
    setRenderedPage(map, r.pageNum, image_data(r.pdfPath, r.pageNum))

(* loadPage after its awaits, renderPdfPage having resolved with the page: *)
(* the renderedPages it leaves.                                            *)
loadPage_resolved(map, r) ==
    IF ~r.cancelled
    THEN setRenderedPage(map, r.pageNum, image_data(r.pdfPath, r.pageNum))
    ELSE map

(* processQueue, had it not looked at pdfLoadingRef.                       *)
processQueue_ignoresLoading(q, cl, cancelled) ==
    IF Len(q.pdfQueueRef) = 0 \/ cancelled
    THEN q
    ELSE [pdfLoadingRef |-> TRUE,
          pdfQueueRef |-> Tail(q.pdfQueueRef),
          requests |-> Append(q.requests, loadPage(cl, cancelled, Head(q.pdfQueueRef)))]

(* processQueue() up to its await, on the refs and requests q.             *)
processQueue(q, cl, cancelled) ==
    IF q.pdfLoadingRef \/ Len(q.pdfQueueRef) = 0 \/ cancelled
    THEN q
    ELSE [pdfLoadingRef |-> TRUE,
          pdfQueueRef |-> Tail(q.pdfQueueRef),
          requests |-> Append(q.requests, loadPage(cl, cancelled, Head(q.pdfQueueRef)))]

Refs == [pdfLoadingRef |-> pdfLoadingRef, pdfQueueRef |-> pdfQueueRef,
         requests |-> requests]

(* The requests after the cleanup of the effect: cancelled = true.         *)
cleanup(reqs) == [i \in 1..Len(reqs) |-> [reqs[i] EXCEPT !.cancelled = TRUE]]

(* The requests without the i-th.                                          *)
Without(reqs, i) == SubSeq(reqs, 1, i - 1) \o SubSeq(reqs, i + 1, Len(reqs))

(* The user goes to another page (onPageChange, onPrevPage, onNextPage).   *)
Navigate ==
    \E n \in PageNumbers :
        /\ n # currentPage
        /\ currentPage' = n
        /\ depsChanged' = depsChanged \cup {"currentPage"}
        /\ UNCHANGED <<viewVars, pdfPath, pagesMeta, renderedPages, openPc,
                       pdfLoadingRef, pdfQueueRef, closure, requests, timers,
                       failedLog>>

(* handleOpenPdf up to its await of the dialog: clearPdf().                *)
HandleOpenPdf ==
    /\ openPc = "idle"
    /\ pdfPath' = "null"
    /\ pagesMeta' = <<>>
    /\ renderedPages' = {}
    /\ depsChanged' = depsChanged \cup {"pdfPath", "renderedPages"}
    /\ openPc' = "dialog"
    /\ UNCHANGED <<viewVars, currentPage, pdfLoadingRef, pdfQueueRef, closure,
                   requests, timers, failedLog>>

(* The dialog was cancelled, or openPdf returned null or threw.            *)
DialogCancelled ==
    /\ openPc = "dialog"
    /\ openPc' = "idle"
    /\ UNCHANGED <<viewVars, pdfPath, pagesMeta, renderedPages, currentPage,
                   prefetchVars>>

(* openPdf(filePath) resolved: setPdfPath, setPagesMeta.                   *)
OpenPdfResolves ==
    \E path \in Paths :
        /\ openPc = "dialog"
        /\ pdfPath' = path
        /\ pagesMeta' = PagesOfDocument
        /\ depsChanged' = depsChanged \cup {"pdfPath"}
        /\ openPc' = "loaded"
        /\ UNCHANGED <<viewVars, renderedPages, currentPage, pdfLoadingRef,
                       pdfQueueRef, closure, requests, timers, failedLog>>

(* handlePdfLoaded of page.tsx, run by its effect on pagesMeta.            *)
HandlePdfLoaded ==
    /\ openPc = "loaded"
    /\ currentPage' = 1
    /\ depsChanged' = IF currentPage # 1 THEN depsChanged \cup {"currentPage"}
                       ELSE depsChanged
    /\ openPc' = "idle"
    /\ UNCHANGED <<viewVars, pdfPath, pagesMeta, renderedPages, pdfLoadingRef,
                   pdfQueueRef, closure, requests, timers, failedLog>>

(* React runs the prefetch effect again: the cleanup of the last run, then *)
(* the effect with the values of this render.                              *)
EffectRun ==
    /\ depsChanged # {}
    /\ depsChanged' = {}
    /\ timers' = 0
    /\ failedLog' = IF depsChanged \cap {"currentPage", "pdfPath"} # {}
                    THEN {} ELSE failedLog
    /\ IF pdfPath = "null" \/ ~currentPageMeta
       THEN /\ closure' = NoClosure
            /\ requests' = cleanup(requests)
            /\ UNCHANGED <<pdfLoadingRef, pdfQueueRef>>
       ELSE LET cl == [pdfPath |-> pdfPath, renderedPages |-> renderedPages]
                q == processQueue([pdfLoadingRef |-> pdfLoadingRef,
                                   pdfQueueRef |-> requestList(currentPage, pagesMeta,
                                                               renderedPages),
                                   requests |-> cleanup(requests)],
                                  cl, FALSE)
            IN  /\ closure' = cl
                /\ pdfLoadingRef' = q.pdfLoadingRef
                /\ pdfQueueRef' = q.pdfQueueRef
                /\ requests' = q.requests
    /\ UNCHANGED <<viewVars, pdfVars>>

(* renderPdfPage resolved with the page: setRenderedPage unless cancelled. *)
FetchResolves ==
    \E i \in 1..Len(requests) :
        LET r == requests[i]
        IN  /\ r.pc = "flight"
            /\ requests' = [requests EXCEPT ![i].pc = "returned"]
            /\ renderedPages' = loadPage_resolved(renderedPages, r)
            /\ depsChanged' = IF renderedPages' # renderedPages
                               THEN depsChanged \cup {"renderedPages"}
                               ELSE depsChanged
            /\ UNCHANGED <<viewVars, pdfPath, pagesMeta, currentPage, openPc,
                           pdfLoadingRef, pdfQueueRef, closure, timers, failedLog>>

(* renderPdfPage threw: the catch of loadPage logs the page.               *)
FetchRejects ==
    \E i \in 1..Len(requests) :
        /\ requests[i].pc = "flight"
        /\ requests' = [requests EXCEPT ![i].pc = "returned"]
        /\ failedLog' = failedLog \cup {requests[i].pageNum}
        /\ UNCHANGED <<viewVars, pdfVars, pdfLoadingRef, pdfQueueRef, closure,
                       depsChanged, timers>>

(* processQueue after  await loadPage(pageNum) .                           *)
Continue ==
    \E i \in 1..Len(requests) :
        /\ requests[i].pc = "returned"
        /\ pdfLoadingRef' = FALSE
        /\ requests' = Without(requests, i)
        /\ timers' = IF ~requests[i].cancelled /\ Len(pdfQueueRef) > 0
                     THEN timers + 1 ELSE timers
        /\ UNCHANGED <<viewVars, pdfVars, pdfQueueRef, closure, depsChanged, failedLog>>

(* A setTimeout(processQueue, 16) of the live run fires.                   *)
TimerFires ==
    /\ timers > 0
    /\ timers' = timers - 1
    /\ LET q == processQueue(Refs, closure, FALSE)
       IN  /\ pdfLoadingRef' = q.pdfLoadingRef
           /\ pdfQueueRef' = q.pdfQueueRef
           /\ requests' = q.requests
    /\ UNCHANGED <<viewVars, pdfVars, closure, depsChanged, failedLog>>

PrefetchNext ==
    \/ Navigate
    \/ HandleOpenPdf
    \/ DialogCancelled
    \/ OpenPdfResolves
    \/ HandlePdfLoaded
    \/ EffectRun
    \/ FetchResolves
    \/ FetchRejects
    \/ Continue
    \/ TimerFires

PrefetchSpec == Init /\ [][PrefetchNext]_vars

(* React runs the effects of a render; a request of the page provider      *)
(* ends; an async function goes on after its await; a timer fires.         *)
FairPrefetchSpec ==
    /\ PrefetchSpec
    /\ WF_openPc(HandlePdfLoaded)
    /\ WF_depsChanged(EffectRun)
    /\ WF_requests(FetchResolves \/ FetchRejects)
    /\ WF_requests(Continue)
    /\ WF_timers(TimerFires)

----------------------------------------------------------------------------
(* The last request has just been made and awaits renderPdfPage.           *)
Issued == Len(requests') > Len(requests) /\ requests'[Len(requests')].pc = "flight"

(* C22: a run of the prefetch effect for the page N of an open document    *)
(* replaces the queue by the pages N, N-1, N+1 that are in 1..page count   *)
(* and not cached, in that order (its first page goes to processQueue at   *)
(* once when no request is pending); and a request is only ever made for a *)
(* page number that is not in renderedPages.                               *)
C22_QueueAndNoRefetch ==
    [][/\ (depsChanged # {} /\ depsChanged' = {} /\ pdfPath # "null" /\ currentPageMeta) =>
             LET N == currentPage
                 wanted == SelectSeq(<<N, N - 1, N + 1>>,
                               LAMBDA n : /\ n \in 1..Len(pagesMeta)
                                          /\ ~has(renderedPages, n))
                 taken == IF Len(requests') > Len(requests)
                          THEN <<requests'[Len(requests')].pageNum>> ELSE <<>>
             IN  taken \o pdfQueueRef' = wanted
       /\ Issued => ~has(renderedPages, requests'[Len(requests')].pageNum)]_vars

(* On page 2 with page 2 cached, the effect asked for page 1 and queued    *)
(* page 3.                                                                 *)
C22_Witness ==
    /\ currentPage = 2
    /\ has(renderedPages, 2)
    /\ depsChanged = {}
    /\ Len(requests) = 1 /\ requests[1].pageNum = 1 /\ requests[1].pc = "flight"
    /\ ~requests[1].cancelled
    /\ pdfQueueRef = <<3>>

----------------------------------------------------------------------------
(* C23: at most one rasterization request is in flight, in every state.    *)
C23_OneInFlight ==
    Cardinality({i \in 1..Len(requests) : requests[i].pc = "flight"}) <= 1

(* The request of a superseded run is still in flight and holds back the   *)
(* queue of the run that followed it.                                      *)
C23_Witness ==
    /\ Len(requests) = 1
    /\ requests[1].pc = "flight" /\ requests[1].cancelled
    /\ closure # NoClosure
    /\ depsChanged = {}
    /\ Len(pdfQueueRef) > 0

----------------------------------------------------------------------------
(* C24: a result that arrives after the effect run that asked for it was   *)
(* cleaned up is not written: an entry of renderedPages is only ever       *)
(* written by a request of the live run, and every request of an earlier   *)
(* run is cancelled.                                                       *)
C24_StaleResultDiscarded ==
    /\ [](\A i \in 1..Len(requests) :
             ~requests[i].cancelled =>
                 closure # NoClosure /\ requests[i].pdfPath = closure.pdfPath)
    /\ [][\A e \in renderedPages' \ renderedPages :
             \E i \in 1..Len(requests) :
                 /\ requests[i].pc = "flight" /\ requests'[i].pc = "returned"
                 /\ ~requests[i].cancelled
                 /\ e = [pageNumber |-> requests[i].pageNum,
                         imageData |->
                             image_data(closure.pdfPath, requests[i].pageNum)]]_vars

(* The document is still open; the request for page 1 was cancelled by a   *)
(* navigation, its result came, and page 1 is not in the cache.            *)
C24_Witness ==
    /\ pdfPath # "null"
    /\ Len(requests) = 1
    /\ requests[1].cancelled /\ requests[1].pc = "returned"
    /\ requests[1].pdfPath = pdfPath
    /\ requests[1].pageNum = 1
    /\ ~has(renderedPages, 1)
    /\ failedLog = {}

----------------------------------------------------------------------------
(* A document is open on page N, no open dialog is under way and no        *)
(* request has failed since the user came to the page.                     *)
SettledOn(N) ==
    /\ currentPage = N
    /\ pdfPath # "null"
    /\ openPc = "idle"
    /\ failedLog = {}

(* The page N and its neighbours in 1..page count are in renderedPages.    *)
NeighbourhoodCached(N) ==
    \A n \in {N - 1, N, N + 1} \cap (1..Len(pagesMeta)) : has(renderedPages, n)

(* C25: when the navigation stops at page N of an open document and no     *)
(* request fails, the pages N, N-1 and N+1 that are in range are           *)
(* eventually all in renderedPages.                                        *)
C25_NeighboursEventuallyCached ==
    \A N \in PageNumbers :
        SettledOn(N) ~> (NeighbourhoodCached(N) \/ ~SettledOn(N))

----------------------------------------------------------------------------
(* The request of the live run for the page n has failed and has not       *)
(* returned to processQueue yet, and the page next is the next of the      *)
(* queue.                                                                  *)
FailedBefore(n, next) ==
    /\ \E i \in 1..Len(requests) :
          /\ requests[i].pc = "returned" /\ ~requests[i].cancelled
          /\ requests[i].pageNum = n
    /\ n \in failedLog
    /\ depsChanged = {}
    /\ Len(pdfQueueRef) > 0 /\ Head(pdfQueueRef) = next

Requested(n) == \E i \in 1..Len(requests) : requests[i].pageNum = n

----------------------------------------------------------------------------
(* A page number of renderedPages has no entry after the step.             *)
EntryRemoved == \E e \in renderedPages : ~has(renderedPages', e.pageNumber)

(* C27 as claimed: no step removes the entry of a page number from         *)
(* renderedPages.                                                          *)
C27_NeverEvicted == [][~EntryRemoved]_vars

(* C27: the only step that removes an entry from renderedPages is the      *)
(* clearPdf() of handleOpenPdf, which empties it before the open dialog is *)
(* shown (so also when the dialog is cancelled afterwards); navigation and *)
(* the completion of a fetch never remove one.                             *)
C27_EvictedOnlyByOpen ==
    [][EntryRemoved => /\ openPc = "idle" /\ openPc' = "dialog"
                       /\ renderedPages' = {}
                       /\ pdfPath' = "null"]_vars

(* All pages of the document have been cached, one navigation and fetch    *)
(* after the other.                                                        *)
C27_Witness ==
    /\ pdfPath # "null"
    /\ \A n \in PageNumbers : has(renderedPages, n)
    /\ \A e \in renderedPages : e.imageData = image_data(pdfPath, e.pageNumber)
    /\ openPc = "idle"

----------------------------------------------------------------------------
(* The pointer gestures of the Viewer and the tool hotkeys of page.tsx.    *)
(*                                                                         *)
(* The handlers are functions of the Viewer's state v, the store st and    *)
(* the props; they return the state and the store they leave, the number   *)
(* of strokes they added, and what onSymbolPlaced did to the props.        *)
(* Pressures are counted in tenths.  panOffset and lastPanPoint, which     *)
(* only move the view, are left out.                                       *)

(* defaultToolSettings of page.tsx; the Inspector is not used.             *)
defaultToolSettings ==
    [pen |-> [color |-> "#18181b", thickness |-> 3, opacity |-> 100],
     highlighter |-> [color |-> "#eab308", thickness |-> 20, opacity |-> 40],
     eraser |-> [color |-> "#ffffff", thickness |-> 20, opacity |-> 100],
     shapes |-> [color |-> "#3b82f6", thickness |-> 2, opacity |-> 100,
                 borderColor |-> "#3b82f6", backgroundColor |-> "transparent"],
     text |-> [color |-> "#18181b", thickness |-> 4, opacity |-> 100],
     fill |-> [color |-> "#ef4444", thickness |-> 1, opacity |-> 100]]

(* toolSettings[tool] || toolSettings.pen                                  *)
getToolSettings(tool) ==
    IF tool \in DOMAIN defaultToolSettings
    THEN defaultToolSettings[tool]
    ELSE defaultToolSettings.pen

(* The type Tool and the type ShapeType of Dock.tsx.                       *)
Tool ==
    {"select", "pan", "pen", "highlighter", "eraser", "text", "shapes", "math", "fill"}

ShapeType ==
    {"rectangle", "circle", "triangle", "line", "arrow", "star", "diamond", "heart"}

(* String.prototype.trim on the model's strings: spaces are the only       *)
(* white space in them.                                                    *)
RECURSIVE trimStart(_)
trimStart(str) ==
    IF Len(str) > 0 /\ SubSeq(str, 1, 1) = " "
    THEN trimStart(SubSeq(str, 2, Len(str)))
    ELSE str

RECURSIVE trimEnd(_)
trimEnd(str) ==
    IF Len(str) > 0 /\ SubSeq(str, Len(str), Len(str)) = " "
    THEN trimEnd(SubSeq(str, 1, Len(str) - 1))
    ELSE str

trim(str) == trimEnd(trimStart(str))

(* What a handler leaves behind.                                           *)
Handled(v, st, added, tool, symbol) ==
    [v |-> v, st |-> st, added |-> added, activeTool |-> tool, pendingSymbol |-> symbol]

(* if (e.pointerType === 'pen') setCurrentPressure(e.pressure || 0.5)      *)
setCurrentPressure(v, e) ==
    IF e.pointerType = "pen"
    THEN [v EXCEPT !.currentPressure = IF e.pressure # 0 THEN e.pressure ELSE 5]
    ELSE v

(* The stroke that startDrawing and handleTextSubmit make of the text box. *)
textStroke(textInput, page) ==
    [points |-> <<textInput.position>>,
     color |-> getToolSettings("text").color,
     thickness |-> getToolSettings("text").thickness,
     opacity |-> getToolSettings("text").opacity,
     tool |-> "text:" \o textInput.value,
     pageId |-> page]

(* startDrawing(e), the handler of onPointerDown.                          *)
startDrawing(v0, st, tool, symbol, page, ready, eng, native, e, fresh) ==
    LET point == e.point
        v == setCurrentPressure(v0, e)
    IN  IF tool = "select"
        THEN LET corner == getResizeCorner(point, strokeOrUndefined(st, st.selectedStrokeId))
                 strokeId == findStrokeAtPoint(st, page, ready, eng, native, point, FALSE)
             IN  IF st.selectedStrokeId # Null /\ corner # "null"
                 THEN Handled([v EXCEPT !.isResizing = TRUE, !.resizeCorner = corner],
                              st, 0, tool, symbol)
                 ELSE IF strokeId # Null
                 THEN LET st1 == IF e.shiftKey THEN addToSelection(st, strokeId).st
                                 ELSE selectStroke(st, strokeId).st
                          stroke == strokeOrUndefined(st1, strokeId)
                      IN  IF stroke # Undefined /\ Len(stroke.points) > 0
                          THEN Handled([v EXCEPT
                                          !.dragOffset = [x |-> point.x - stroke.points[1].x,
                                                          y |-> point.y - stroke.points[1].y],
                                          !.isDragging = TRUE],
                                       st1, 0, tool, symbol)
                          ELSE Handled(v, st1, 0, tool, symbol)
                 ELSE Handled([v EXCEPT !.isRubberBanding = TRUE,
                                        !.rubberBandStart = point,
                                        !.rubberBandEnd = point],
                              IF ~e.shiftKey THEN clearSelection(st).st ELSE st,
                              0, tool, symbol)
        ELSE IF tool = "pan"
        THEN Handled([v EXCEPT !.isPanning = TRUE], st, 0, tool, symbol)
        ELSE IF tool = "text"
        THEN LET st1 == selectStroke(st, Null).st
                 submits == v.textInput # NoTextInput /\ trim(v.textInput.value) # ""
                 st2 == IF submits
                        THEN addStroke(st1, textStroke(v.textInput, page), fresh).st
                        ELSE st1
                 added == IF submits THEN 1 ELSE 0
             IN  IF symbol # "null"
                 THEN Handled([v EXCEPT !.textInput = NoTextInput,
                                        !.isDrawing = TRUE,
                                        !.symbolStart = point,
                                        !.symbolEnd = point],
                              st2, added, tool, symbol)
                 ELSE Handled([v EXCEPT !.textInput = [position |-> point, value |-> ""]],
                              st2, added, tool, symbol)
        ELSE LET st1 == selectStroke(st, Null).st
             IN  IF tool = "shapes"
                 THEN Handled([v EXCEPT !.isDrawing = TRUE,
                                        !.shapeStart = point,
                                        !.shapeEnd = point],
                              st1, 0, tool, symbol)
                 ELSE IF tool = "fill"
                 THEN LET strokeId == findStrokeAtPoint(st1, page, ready, eng, native,
                                                        point, FALSE)
                          stroke == strokeOrUndefined(st1, strokeId)
                      IN  IF /\ strokeId # Null
                             /\ stroke # Undefined
                             /\ startsWith(stroke.tool, "shape-")
                          THEN Handled(v, updateStroke(st1, strokeId,
                                           [fillColor |-> getToolSettings("fill").color]).st,
                                       0, tool, symbol)
                          ELSE Handled(v, st1, 0, tool, symbol)
                 ELSE IF tool # "pen" /\ tool # "highlighter" /\ tool # "eraser"
                 THEN Handled(v, st1, 0, tool, symbol)
                 ELSE Handled([v EXCEPT !.isDrawing = TRUE, !.currentStroke = <<point>>],
                              st1, 0, tool, symbol)

(* Math.round(n / d) for n >= 0 and d > 0.                                 *)
round(n, d) == (2 * n + d) \div (2 * d)

(* The resizing branch of draw, on the stroke of the primary selection.    *)
resize(st, stroke, corner, point) ==
    IF startsWith(stroke.tool, "shape-") /\ Len(stroke.points) >= 2
    THEN LET p == stroke.points
             newPoints ==
                 IF corner = "tl" THEN [p EXCEPT ![1] = Pt(point.x, point.y)]
                 ELSE IF corner = "tr"
                 THEN [p EXCEPT ![1] = Pt(p[1].x, point.y), ![2] = Pt(point.x, p[2].y)]
                 ELSE IF corner = "bl"
                 THEN [p EXCEPT ![1] = Pt(point.x, p[1].y), ![2] = Pt(p[2].x, point.y)]
                 ELSE IF corner = "br" THEN [p EXCEPT ![2] = Pt(point.x, point.y)]
                 ELSE p
         IN  updateStroke(st, stroke.id, [points |-> newPoints]).st
    ELSE IF startsWith(stroke.tool, "text:")
    THEN LET fontSize == max(14, stroke.thickness * 4)
             baseY == stroke.points[1].y
             baseX == stroke.points[1].x
             \* newFontSize, in tenths
             newFontSize ==
                 IF corner = "br" \/ corner = "tr"
                 THEN max(140, (point.x - baseX) * 15)
                 ELSE IF corner = "bl" \/ corner = "tl"
                 THEN max(140, (baseY - point.y + fontSize) * 12)
                 ELSE 10 * fontSize
             newThickness == max(1, min(100, round(newFontSize, 40)))
         IN  IF newThickness # stroke.thickness
             THEN updateStroke(st, stroke.id, [thickness |-> newThickness]).st
             ELSE st
    ELSE st

(* The dragging branch of draw.                                            *)
drag(st, stroke, dragOffset, point) ==
    LET newX == point.x - dragOffset.x
        newY == point.y - dragOffset.y
    IN  IF startsWith(stroke.tool, "shape-") /\ Len(stroke.points) >= 2
        THEN LET dx == newX - stroke.points[1].x
                 dy == newY - stroke.points[1].y
             IN  updateStroke(st, stroke.id,
                     [points |-> <<Pt(stroke.points[1].x + dx, stroke.points[1].y + dy),
                                   Pt(stroke.points[2].x + dx, stroke.points[2].y + dy)>>]).st
        ELSE updateStroke(st, stroke.id, [points |-> <<Pt(newX, newY)>>]).st

(* draw(e), the handler of onPointerMove.                                  *)
draw(v0, st, tool, symbol, page, ready, eng, native, e) ==
    LET point == e.point
        v == setCurrentPressure(v0, e)
        selected == strokeOrUndefined(st, st.selectedStrokeId)
    IN  IF v.isPanning
        THEN Handled(v, st, 0, tool, symbol)
        ELSE IF v.isRubberBanding /\ v.rubberBandStart # NoPoint
        THEN Handled([v EXCEPT !.rubberBandEnd = point], st, 0, tool, symbol)
        ELSE IF v.isResizing /\ st.selectedStrokeId # Null /\ v.resizeCorner # "null"
        THEN IF selected = Undefined THEN Handled(v, st, 0, tool, symbol)
             ELSE Handled(v, resize(st, selected, v.resizeCorner, point), 0, tool, symbol)
        ELSE IF v.isDragging /\ st.selectedStrokeId # Null
        THEN IF selected = Undefined THEN Handled(v, st, 0, tool, symbol)
             ELSE Handled(v, drag(st, selected, v.dragOffset, point), 0, tool, symbol)
        ELSE IF ~v.isDrawing
        THEN Handled(v, st, 0, tool, symbol)
        ELSE IF tool = "shapes"
        THEN Handled([v EXCEPT !.shapeEnd = point], st, 0, tool, symbol)
        ELSE IF tool = "text" /\ symbol # "null" /\ v.symbolStart # NoPoint
        THEN Handled([v EXCEPT !.symbolEnd = point], st, 0, tool, symbol)
        ELSE IF tool = "eraser"
        THEN LET strokeId == findStrokeAtPoint(st, page, ready, eng, native, point, TRUE)
             IN  IF strokeId # Null
                 THEN Handled(v, deleteStroke(st, strokeId).st, 0, tool, symbol)
                 ELSE Handled(v, st, 0, tool, symbol)
        ELSE Handled([v EXCEPT !.currentStroke = Append(v.currentStroke, point)],
                     st, 0, tool, symbol)

(* finalThickness of stopDrawing: Math.round(thickness * (0.5 +            *)
(* currentPressure)), the pressure in tenths.                              *)
finalThickness(thickness, currentPressure) ==
    round(thickness * (5 + currentPressure), 10)

(* stopDrawing, the handler of onPointerUp, onPointerLeave and             *)
(* onPointerCancel.  simplified is what stopDrawing calls                  *)
(* simplifiedPoints.                                                       *)
stopDrawing(v, st, tool, shape, symbol, page, simplified, fresh) ==
    IF v.isRubberBanding
    THEN LET width == IF v.rubberBandStart # NoPoint /\ v.rubberBandEnd # NoPoint
                      THEN Abs(v.rubberBandEnd.x - v.rubberBandStart.x) ELSE 0
             height == IF v.rubberBandStart # NoPoint /\ v.rubberBandEnd # NoPoint
                       THEN Abs(v.rubberBandEnd.y - v.rubberBandStart.y) ELSE 0
             selectedIds == IF width > 5 \/ height > 5
                            THEN findStrokesInRect(st, page, v.rubberBandStart,
                                                   v.rubberBandEnd)
                            ELSE <<>>
         IN  Handled([v EXCEPT !.isRubberBanding = FALSE,
                               !.rubberBandStart = NoPoint,
                               !.rubberBandEnd = NoPoint],
                     IF Len(selectedIds) > 0 THEN selectStrokes(st, selectedIds).st ELSE st,
                     0, tool, symbol)
    ELSE IF v.isResizing
    THEN Handled([v EXCEPT !.isResizing = FALSE, !.resizeCorner = "null"],
                 st, 0, tool, symbol)
    ELSE IF v.isDragging
    THEN Handled([v EXCEPT !.isDragging = FALSE], st, 0, tool, symbol)
    ELSE IF v.isPanning
    THEN Handled([v EXCEPT !.isPanning = FALSE], st, 0, tool, symbol)
    ELSE IF ~v.isDrawing
    THEN Handled(v, st, 0, tool, symbol)
    ELSE IF tool = "shapes" /\ v.shapeStart # NoPoint /\ v.shapeEnd # NoPoint
    THEN LET shapeSettings == getToolSettings("shapes")
             data == [points |-> <<v.shapeStart, v.shapeEnd>>,
                      color |-> shapeSettings.borderColor,
                      thickness |-> shapeSettings.thickness,
                      opacity |-> shapeSettings.opacity,
                      tool |-> "shape-" \o shape,
                      pageId |-> page]
         IN  Handled([v EXCEPT !.shapeStart = NoPoint,
                               !.shapeEnd = NoPoint,
                               !.isDrawing = FALSE],
                     addStroke(st, data, fresh).st, 1, tool, symbol)
    ELSE IF /\ tool = "text" /\ symbol # "null"
            /\ v.symbolStart # NoPoint /\ v.symbolEnd # NoPoint
    THEN LET textSettings == getToolSettings("text")
             size == max(20, max(Abs(v.symbolEnd.x - v.symbolStart.x),
                                 Abs(v.symbolEnd.y - v.symbolStart.y)))
             thickness == max(1, min(20, round(size, 4)))
             data == [points |-> <<v.symbolStart>>,
                      color |-> textSettings.color,
                      thickness |-> thickness,
                      opacity |-> textSettings.opacity,
                      tool |-> "text:" \o symbol,
                      pageId |-> page]
         IN  Handled([v EXCEPT !.symbolStart = NoPoint,
                               !.symbolEnd = NoPoint,
                               !.isDrawing = FALSE],
                     addStroke(st, data, fresh).st, 1, "select", "null")
    ELSE IF Len(v.currentStroke) = 0
    THEN Handled([v EXCEPT !.isDrawing = FALSE], st, 0, tool, symbol)
    ELSE IF tool = "eraser"
    THEN Handled([v EXCEPT !.currentStroke = <<>>, !.isDrawing = FALSE],
                 st, 0, tool, symbol)
    ELSE LET currentToolSettings == getToolSettings(tool)
             data == [points |-> simplified,
                      color |-> currentToolSettings.color,
                      thickness |-> finalThickness(currentToolSettings.thickness,
                                                   v.currentPressure),
                      opacity |-> currentToolSettings.opacity,
                      tool |-> tool,
                      pageId |-> page]
         IN  Handled([v EXCEPT !.currentStroke = <<>>, !.isDrawing = FALSE],
                     addStroke(st, data, fresh).st, 1, tool, symbol)

(* handleTextSubmit, on Enter and on blur of the text box.                 *)
handleTextSubmit(v, st, tool, symbol, page, fresh) ==
    IF v.textInput # NoTextInput /\ trim(v.textInput.value) # ""
    THEN Handled([v EXCEPT !.textInput = NoTextInput],
                 addStroke(st, textStroke(v.textInput, page), fresh).st, 1, tool, symbol)
    ELSE Handled([v EXCEPT !.textInput = NoTextInput], st, 0, tool, symbol)

(* Bound of the model: the points of the stroke in progress.               *)
MaxPoints == 2

(* Where the pointer goes down and moves (getCanvasPoint): the gestures    *)
(* of the model stay on one spot.                                          *)
PointerPoints == {Pt(25, 25)}

(* The pointer events: a mouse has no pressure of its own and reports 0.5  *)
(* while a button is down and 0 otherwise; a pen reports what it measures, *)
(* or 0 when it cannot (and while it hovers).  In tenths.                  *)
PointerDownEvents ==
    [point : PointerPoints, pointerType : {"mouse"}, pressure : {5}, shiftKey : {FALSE}]
        \cup [point : PointerPoints, pointerType : {"pen"}, pressure : {0, 10},
              shiftKey : {FALSE}]

(* The moves of the pointer that is down, or of a pointer that hovers.     *)
PointerMoveEvents ==
    IF pointer = "none"
    THEN [point : PointerPoints, pointerType : {"mouse", "pen"}, pressure : {0},
          shiftKey : {FALSE}]
    ELSE {e \in PointerDownEvents : e.pointerType = pointer /\ ~e.shiftKey}

(* The symbols of the Dock's palette and what is typed into the text box.  *)
Symbols == {"$"}

TextValues == {" ", "Hi"}

(* The handler  call  has returned  h : the store, the Viewer and the      *)
(* props after it.  The effect on [strokes, selectedStrokeId,              *)
(* currentStroke, shapeStart, ...] marks the canvas.                       *)
(* The store as a handler of the Viewer finds it, watched for its sets:    *)
(* page.tsx subscribes to the whole store (useCanvasStore() without a      *)
(* selector), so that every set renders Home again.                        *)
Watched == Spread(Store, [notified |-> FALSE])

(* The state that stopDrawing reads and does not list in its dependencies. *)
capture(v) ==
    [isRubberBanding |-> v.isRubberBanding, rubberBandStart |-> v.rubberBandStart,
     rubberBandEnd |-> v.rubberBandEnd, currentPressure |-> v.currentPressure]

(* The dependencies of stopDrawing that are state of the Viewer.           *)
StopDeps == {"isDrawing", "isPanning", "isDragging", "isResizing", "currentStroke",
             "shapeStart", "shapeEnd", "symbolStart", "symbolEnd"}

(* useCallback makes stopDrawing anew in the render after a handler: one   *)
(* of its dependencies changed, or Home was rendered again (a set of the   *)
(* store, another tool or symbol) and passed a new onSymbolPlaced.         *)
Recreates(h) ==
    \/ h.st.notified
    \/ h.activeTool # activeTool
    \/ h.pendingSymbol # pendingSymbol
    \/ \E f \in StopDeps : h.v[f] # viewer[f]

(* A handler of the Viewer ran and left  handled  behind.                   *)
HandlesWithin(call, handled, hist) ==
    \E h \in {handled} :
        /\ nextId + h.added - 1 <= MaxIds
        /\ Len(h.st.undoStack) <= hist
        /\ Len(h.v.currentStroke) <= MaxPoints
        /\ ReturnsStore(call, Void(h.st))
        /\ nextId' = nextId + h.added
        /\ viewer' = h.v
        /\ stopClosure' = IF Recreates(h) THEN capture(h.v) ELSE stopClosure
        /\ activeTool' = h.activeTool
        /\ pendingSymbol' = h.pendingSymbol
        /\ needsRenderRef' =
              \/ needsRenderRef
              \/ h.st.strokes # strokes
              \/ h.st.selectedStrokeId # selectedStrokeId
              \/ h.v.currentStroke # viewer.currentStroke
              \/ <<h.v.shapeStart, h.v.shapeEnd>> # <<viewer.shapeStart, viewer.shapeEnd>>
              \/ <<h.v.symbolStart, h.v.symbolEnd>> # <<viewer.symbolStart, viewer.symbolEnd>>
        /\ UNCHANGED <<wasmVars, isActiveRef, running, lastTime, timestamp, surface, renderDeps,
                       background, canvasVars,
                       pdfVars, prefetchVars, activeShape, pages>>

Handles(call, h) == HandlesWithin(call, h, MaxHist)

(* onPointerDown with one of the given events, within the given bound of   *)
(* the history.                                                            *)
PointerDownWith(events, hist) ==
    \E e \in events, native \in NativeHits :
        \E h \in {startDrawing(viewer, Watched, activeTool, pendingSymbol, currentPage,
                                wasmReady, engine, native, e, nextId)} :
            /\ pointer = "none"
            /\ HandlesWithin("startDrawing", h, hist)
            /\ pointer' = e.pointerType
            /\ gesture' = [start |-> strokes,
                           kind |-> IF h.v.isDragging THEN "drag"
                                    ELSE IF h.v.isResizing THEN "resize"
                                    ELSE "other"]

PointerDown == PointerDownWith(PointerDownEvents, MaxHist)

(* onPointerMove.                                                          *)
PointerMoveWith(events, hist) ==
    \E e \in events, native \in NativeHits :
        /\ HandlesWithin("draw",
                         draw(viewer, Watched, activeTool, pendingSymbol, currentPage,
                              wasmReady, engine, native, e),
                         hist)
        /\ UNCHANGED <<pointer, gesture>>

PointerMove == PointerMoveWith(PointerMoveEvents, MaxHist)

(* onPointerUp (and onPointerLeave, onPointerCancel): the memoized         *)
(* stopDrawing runs on the state it closed over, and what it does not set  *)
(* stays as it is.                                                         *)
PointerUpWithin(hist) ==
    \E throws \in NativeThrows(wasmModule),
       result \in simplify_points(JSONstringify(viewer.currentStroke)) :
        LET seen == [viewer EXCEPT !.isRubberBanding = stopClosure.isRubberBanding,
                                   !.rubberBandStart = stopClosure.rubberBandStart,
                                   !.rubberBandEnd = stopClosure.rubberBandEnd,
                                   !.currentPressure = stopClosure.currentPressure]
            h == stopDrawing(seen, Watched, activeTool, activeShape, pendingSymbol,
                             currentPage,
                             simplifiedPoints(wasmReady, wasmModule,
                                              viewer.currentStroke, throws, result),
                             nextId)
            v == IF seen.isRubberBanding
                 THEN [h.v EXCEPT !.currentPressure = viewer.currentPressure]
                 ELSE [h.v EXCEPT !.isRubberBanding = viewer.isRubberBanding,
                                  !.rubberBandStart = viewer.rubberBandStart,
                                  !.rubberBandEnd = viewer.rubberBandEnd,
                                  !.currentPressure = viewer.currentPressure]
        IN  /\ HandlesWithin("stopDrawing", [h EXCEPT !.v = v], hist)
            /\ pointer' = "none"
            /\ UNCHANGED gesture

PointerUp == PointerUpWithin(MaxHist)

(* onChange of the text box.                                               *)
ChangeText ==
    \E value \in TextValues :
        /\ viewer.textInput # NoTextInput
        /\ viewer.textInput.value # value
        /\ viewer' = [viewer EXCEPT !.textInput.value = value]
        /\ UNCHANGED <<storeVars, lastCall, ret, wasmVars, loopVars, pdfVars, canvasVars,
                       prefetchVars, activeTool, activeShape, pendingSymbol, pointer,
                       gesture, pages, stopClosure>>

(* Enter in the text box.                                                  *)
HandleTextSubmit ==
    /\ viewer.textInput # NoTextInput
    /\ Handles("handleTextSubmit",
               handleTextSubmit(viewer, Watched, activeTool, pendingSymbol, currentPage,
                                nextId))
    /\ UNCHANGED <<pointer, gesture>>

(* handleKeyDown of page.tsx without Ctrl: the tool that a key selects,    *)
(* and the shape where it selects one.                                     *)
hotkeys ==
    [v |-> [tool |-> "select"],
     h |-> [tool |-> "pan"],
     p |-> [tool |-> "pen"],
     m |-> [tool |-> "highlighter"],
     e |-> [tool |-> "eraser"],
     t |-> [tool |-> "text"],
     r |-> [tool |-> "shapes", shape |-> "rectangle"],
     c |-> [tool |-> "shapes", shape |-> "circle"],
     l |-> [tool |-> "shapes", shape |-> "line"],
     a |-> [tool |-> "shapes", shape |-> "arrow"]]

(* The keys of the gestures of mouse and pen: select, pen and rectangle.   *)
Keys == {"v", "p", "r"}

(* A key goes down while the text box is not open (the box keeps its keys  *)
(* to itself); the pointer may be down or not.                             *)
HotkeyOf(keys) ==
    \E key \in keys :
        /\ viewer.textInput = NoTextInput
        /\ activeTool' = hotkeys[key].tool
        /\ activeShape' = IF "shape" \in DOMAIN hotkeys[key]
                          THEN hotkeys[key].shape ELSE activeShape
        /\ <<activeTool', activeShape'>> # <<activeTool, activeShape>>
        /\ stopClosure' = capture(viewer)
        /\ UNCHANGED <<storeVars, lastCall, ret, wasmVars, loopVars, pdfVars, canvasVars,
                       prefetchVars, pendingSymbol, viewer, pointer, gesture,
                       pages>>

Hotkey == HotkeyOf(Keys)

(* onInsertSymbol: a click on a symbol of the Dock's palette, with no      *)
(* pointer down on the canvas, selects the text tool as well.              *)
InsertSymbol ==
    \E symbol \in Symbols :
        /\ pointer = "none"
        /\ pendingSymbol' = symbol
        /\ activeTool' = "text"
        /\ <<activeTool', pendingSymbol'>> # <<activeTool, pendingSymbol>>
        /\ stopClosure' = capture(viewer)
        /\ UNCHANGED <<storeVars, lastCall, ret, wasmVars, loopVars, pdfVars, canvasVars,
                       prefetchVars, activeShape, viewer, pointer, gesture,
                       pages>>

(* The gestures of mouse and pen under the tools of  Keys ; the text box,  *)
(* the symbols, the shift key and the other tools are in ModeSpec.         *)
GestureNext ==
    \/ PointerDown
    \/ PointerMove
    \/ PointerUp
    \/ Hotkey

GestureSpec == Init /\ [][GestureNext]_vars

----------------------------------------------------------------------------
(* The kinds of a stroke: the two freehand tools, the eight shapes and the *)
(* texts with their payload.                                               *)
StrokeKind(tool) ==
    \/ tool \in {"pen", "highlighter"}
    \/ tool \in {"shape-" \o shape : shape \in ShapeType}
    \/ startsWith(tool, "text:")

(* C28: every stroke of the store has a kind of the closed set pen,        *)
(* highlighter, shape-<one of the eight shapes>, text:<payload>, whatever  *)
(* the order of the pointer events and the tool changes, also when the     *)
(* tool changes between the pointer going down and going up.               *)
C28_KindIsClosed ==
    \A i \in 1..Len(strokes) : StrokeKind(strokes[i].tool)

----------------------------------------------------------------------------
(* The step is a stopDrawing that commits the freehand stroke in progress. *)
CommitsFreehand ==
    /\ lastCall' = "stopDrawing"
    /\ Len(strokes') = Len(strokes) + 1
    /\ viewer.isDrawing
    /\ viewer.currentStroke # <<>>
    /\ viewer'.currentStroke = <<>>

(* C30: a pointer without pressure draws with the default pressure 0.5:    *)
(* the freehand stroke that a gesture of the mouse commits with the pen or *)
(* the highlighter has the thickness configured for the tool, also when an *)
(* earlier gesture of a pen has reported another pressure.                 *)
C30_MouseStrokeHasConfiguredThickness ==
    [][(CommitsFreehand /\ pointer = "mouse" /\ activeTool \in {"pen", "highlighter"})
          => strokes'[Len(strokes')].thickness = getToolSettings(activeTool).thickness]_vars

----------------------------------------------------------------------------
(* The step draws a page image on the offscreen buffer.                    *)
Composites == pdfCanvas' # pdfCanvas /\ pdfCanvas'.image # 0

(* The step is an animation frame in which the loop redraws the canvas.    *)
Redraws == timestamp' # timestamp /\ ret' = "true"

(* C29: the page image is drawn on the offscreen buffer only by a run of   *)
(* the render-loop effect that finds another page image than the last one  *)
(* it drew, never by an animation frame; when the loop draws the           *)
(* background, the buffer holds the page image of the loop; and without a  *)
(* page image the loop draws no background and renders the strokes.        *)
C29_BufferHoldsPageImage ==
    [][/\ Composites => /\ pdfCanvas'.image = pdfImage
                         /\ pdfImage # lastPdfImageRef
                         /\ timestamp' = timestamp
       /\ Redraws => IF loopPdfImage # 0
                     THEN background' = [drawn |-> TRUE, image |-> loopPdfImage]
                     ELSE /\ background' = NoBackground
                          /\ surface' = engine.strokes]_vars

----------------------------------------------------------------------------
(* The selection and the stroke list.                                      *)

(* C31: in every reachable state of the store the selection refers only to *)
(* existing strokes: every id in selectedStrokeIds, and selectedStrokeId   *)
(* when it is not null, is the id of a stroke in strokes.                  *)
C31_SelectionExists ==
    /\ \A i \in 1..Len(selectedStrokeIds) :
           selectedStrokeIds[i] \in IdSet(strokes)
    /\ selectedStrokeId # Null => selectedStrokeId \in IdSet(strokes)

(* C32: in every reachable state of the store the primary selection is     *)
(* part of the multi-selection: a non-null selectedStrokeId is a member of *)
(* selectedStrokeIds.                                                      *)
C32_PrimaryInSelection ==
    selectedStrokeId # Null =>
        \E i \in 1..Len(selectedStrokeIds) :
            selectedStrokeIds[i] = selectedStrokeId


(* The primary selection after a removal that left a stroke selected.      *)
C32_Witness ==
    /\ lastCall = "removeFromSelection"
    /\ Len(selectedStrokeIds) = 1
    /\ selectedStrokeId = selectedStrokeIds[1]
    /\ Len(strokes) = 2

(* C33: deleteSelectedStrokes, cutSelected, copySelected and               *)
(* duplicateSelected called with an empty selection, and paste called with *)
(* an empty clipboard, leave strokes, the selection, the clipboard,        *)
(* undoStack and redoStack unchanged.                                      *)
C33_EmptyInputIsNoOp ==
    [][(\/ /\ lastCall' \in {"deleteSelectedStrokes", "cutSelected",
                             "copySelected", "duplicateSelected"}
           /\ Len(selectedStrokeIds) = 0
        \/ /\ lastCall' = "paste"
           /\ Len(clipboard) = 0)
       => UNCHANGED storeVars]_vars

(* duplicateSelected was called with nothing selected while there were     *)
(* strokes and a redo history to lose (a call that duplicates something    *)
(* empties redoStack).                                                     *)
C33_Witness ==
    /\ lastCall = "duplicateSelected"
    /\ Len(selectedStrokeIds) = 0
    /\ Len(strokes) > 0
    /\ Len(redoStack) > 0
    /\ Len(undoStack) > 0

----------------------------------------------------------------------------
(* Dragging and resizing with the select tool.                             *)

(* The pointer-move handler takes its dragging branch: the branches for    *)
(* panning, the rubber band and resizing come first in draw.               *)
DragMoves ==
    /\ viewer.isDragging
    /\ selectedStrokeId # Null
    /\ ~viewer.isPanning
    /\ ~(viewer.isRubberBanding /\ viewer.rubberBandStart # NoPoint)
    /\ ~(viewer.isResizing /\ viewer.resizeCorner # "null")
    /\ strokeOrUndefined(Store, selectedStrokeId) # Undefined

(* new is old displaced by one vector: as many points, and every point     *)
(* moved as the first one.                                                 *)
Translated(old, new) ==
    /\ Len(new) = Len(old)
    /\ \A i \in 1..Len(old) :
           /\ new[i].x - old[i].x = new[1].x - old[1].x
           /\ new[i].y - old[i].y = new[1].y - old[1].y

(* C34: dragging a selected stroke translates it rigidly: every            *)
(* pointer-move of the drag leaves the stroke with the number of points it *)
(* had and displaces every point by the same vector, whatever the kind of  *)
(* the stroke (so the stroke after any number of moves is a translation of *)
(* the stroke before the drag).                                            *)
C34_DragIsRigid ==
    [][(lastCall' = "draw" /\ DragMoves)
       => LET old == strokeOrUndefined(Store, selectedStrokeId)
              new == SelectSeq(strokes', LAMBDA s : s.id = selectedStrokeId)
          IN  /\ Len(new) = 1
              /\ Translated(old.points, new[1].points)]_vars

----------------------------------------------------------------------------
(* Gestures of the select tool on strokes that addStroke put on the page:  *)
(* the pointer goes down and moves on two spots, the second within reach   *)
(* of a stroke at the first; strokes are added and Ctrl+Z is pressed       *)
(* between two gestures.                                                   *)

(* Bound of the model: the history during these gestures.                  *)
MaxDragHist == 3

DragPoints == {Pt(10, 10), Pt(14, 12)}

DragEvents ==
    [point : DragPoints, pointerType : {"mouse"}, pressure : {5}, shiftKey : {FALSE}]

DragDown == PointerDownWith(DragEvents, MaxDragHist)

DragMove ==
    /\ pointer = "mouse"
    /\ PointerMoveWith(DragEvents, MaxDragHist)

DragUp ==
    /\ pointer = "mouse"
    /\ PointerUpWithin(MaxDragHist)

(* A stroke is added while no pointer is down.                             *)
DragAdd ==
    /\ pointer = "none"
    /\ AddStroke

(* Ctrl+Z while no pointer is down.                                        *)
DragUndo ==
    /\ pointer = "none"
    /\ Undo

DragNext ==
    \/ DragAdd
    \/ DragDown
    \/ DragMove
    \/ DragUp
    \/ DragUndo

DragSpec == Init /\ [][DragNext]_vars

(* C35: a completed drag or resize gesture (pointer-down, pointer-moves,   *)
(* pointer-up) that changed a stroke is one undoable edit: the undo() that *)
(* follows the pointer-up restores the strokes to what they were before    *)
(* the pointer-down.                                                       *)
C35_GestureIsOneEdit ==
    [][(/\ lastCall = "stopDrawing"
        /\ gesture.kind \in {"drag", "resize"}
        /\ strokes # gesture.start
        /\ lastCall' = "undo")
       => strokes' = gesture.start]_vars

----------------------------------------------------------------------------
(* The eraser in accelerated mode: the strokes of the store, the list that *)
(* the animation-frame callback of the stroke effect last loaded into the  *)
(* engine, and the pointer-moves of the eraser between the two.            *)

(* engine.hit_test: the index, in the list loaded into the engine, of the  *)
(* topmost stroke that covers the point, or -1.                            *)
hit_test(eng, point, radius) ==
    LET hits == {j \in 1..Len(eng.strokes) : hitsStroke(eng.strokes[j], point, radius)}
    IN  IF hits = {} THEN -1
        ELSE (CHOOSE j \in hits : \A k \in hits : k <= j) - 1

(* A pointer-move of the eraser (the eraser branch of draw): the stroke    *)
(* that findStrokeAtPoint returns is deleted.  The step records the id of  *)
(* the stroke that the engine hit, and the id returned.                    *)
Erase ==
    \E point \in PointInputs :
        LET native == IF engine = NoEngine THEN -1 ELSE hit_test(engine, point, 15)
            strokeId == findStrokeAtPoint(Store, currentPageId, wasmReady, engine,
                                          native, point, TRUE)
            r == IF strokeId # Null THEN deleteStroke(Store, strokeId) ELSE Void(Store)
        IN  /\ ReturnsStore("erase",
                   [st |-> r.st,
                    ret |-> [accelerated |-> wasmReady,
                             hit |-> IF native >= 0 THEN engine.strokes[native + 1].id
                                     ELSE Null,
                             value |-> strokeId]])
            /\ needsRenderRef' = (needsRenderRef \/ strokeId # Null)
            /\ UNCHANGED <<nextId, otherVars, wasmVars, isActiveRef, running, lastTime,
                           timestamp, surface, renderDeps, background>>

EraserNext ==
    \/ ImportResolves
    \/ ImportRejects
    \/ DefaultResolves
    \/ DefaultRejects
    \/ CommitStroke
    \/ SyncStrokes
    \/ Erase

EraserSpec == Init /\ [][EraserNext]_vars

(* C36: in accelerated mode the id that findStrokeAtPoint returns is the   *)
(* id of the stroke that the engine hit (and null when it hit none),       *)
(* whatever the order of store mutations, synchronisations of the strokes  *)
(* to the engine and pointer events.                                       *)
C36_ReturnsTheStrokeHit ==
    (lastCall = "erase" /\ ret.accelerated) => ret.value = ret.hit

----------------------------------------------------------------------------
(* C37: once every Image that the page-image effect made has loaded, the   *)
(* background of the renderer belongs to the current page: pdfImage is the *)
(* Image made of the current page's cached image, or null when the current *)
(* page has no cached image, in whatever order the loads completed.        *)
C37_BackgroundOfCurrentPage ==
    loading = {} => pdfImage = currentPageImage

----------------------------------------------------------------------------
(* The page list of page.tsx: pages are added and deleted, and strokes are *)
(* drawn on the current page.                                              *)

(* Bound of the model: the page ids.                                       *)
MaxPageId == 3

(* Math.max(...pages.map(p => p.id))                                       *)
maxId(list) == CHOOSE m \in {list[i] : i \in 1..Len(list)} :
                   \A i \in 1..Len(list) : list[i] <= m

(* What page.tsx changes of the tool and page state.                       *)
PageStep(call) ==
    /\ lastCall' = call
    /\ ret' = "undefined"
    /\ depsChanged' = IF currentPage' # currentPage
                      THEN depsChanged \cup {"currentPage"} ELSE depsChanged
    /\ UNCHANGED <<storeVars, wasmVars, loopVars, canvasVars, activeTool, activeShape,
                   pendingSymbol, viewer, pointer, gesture, stopClosure, pdfPath, pagesMeta,
                   renderedPages, openPc, pdfLoadingRef, pdfQueueRef, closure, requests,
                   timers, failedLog>>

handleAddPage(list) ==
    LET newId == maxId(list) + 1
    IN  [pages |-> Append(list, newId), currentPage |-> newId]

HandleAddPage ==
    LET r == handleAddPage(pages)
    IN  /\ r.currentPage <= MaxPageId
        /\ pages' = r.pages
        /\ currentPage' = r.currentPage
        /\ PageStep("handleAddPage")

handleDeletePage(list, current, id) ==
    IF Len(list) <= 1 THEN [pages |-> list, currentPage |-> current]
    ELSE LET remaining == SelectSeq(list, LAMBDA p : p # id)
         IN  [pages |-> remaining,
              currentPage |-> IF current = id THEN remaining[1] ELSE current]

HandleDeletePage ==
    \E i \in 1..Len(pages) :
        LET r == handleDeletePage(pages, currentPage, pages[i])
        IN  /\ pages' = r.pages
            /\ currentPage' = r.currentPage
            /\ PageStep("handleDeletePage")

(* A stroke is drawn on the current page: the addStroke of stopDrawing,    *)
(* with pageId: currentPage.                                               *)
DrawOnPage ==
    \E d \in StrokeDataInputs :
        /\ IdRoom(1)
        /\ ReturnsStore("addStroke",
                        addStroke(Store, [d EXCEPT !.pageId = currentPage], nextId))
        /\ nextId' = nextId + 1
        /\ needsRenderRef' = TRUE
        /\ UNCHANGED <<otherVars, wasmVars, isActiveRef, running, lastTime, timestamp,
                       surface, renderDeps, background>>

PageNext ==
    \/ HandleAddPage
    \/ HandleDeletePage
    \/ DrawOnPage

PageSpec == Init /\ [][PageNext]_vars

(* C38: a newly added page starts empty: right after handleAddPage the     *)
(* store holds no stroke of the new page, the current one, whatever pages  *)
(* were added, deleted and drawn on before.                                *)
C38_NewPageIsEmpty ==
    lastCall = "handleAddPage" => getPageStrokes(Store, currentPage) = <<>>

----------------------------------------------------------------------------
(* The interaction modes of the Viewer, in gestures of the mouse under     *)
(* every tool that begins a mode: select, pan, pen, eraser, text (with a   *)
(* pending symbol) and the rectangle.                                      *)

ModeKeys == {"v", "h", "p", "e", "t", "r"}

ModeEvents ==
    [point : PointerPoints, pointerType : {"mouse"}, pressure : {5}, shiftKey : BOOLEAN]

ModeDown == PointerDownWith(ModeEvents, MaxHist)

ModeMove ==
    /\ pointer = "mouse"
    /\ PointerMoveWith(ModeEvents, MaxHist)

ModeUp ==
    /\ pointer = "mouse"
    /\ PointerUpWithin(MaxHist)

ModeHotkey == HotkeyOf(ModeKeys)

ModeNext ==
    \/ ModeDown
    \/ ModeMove
    \/ ModeUp
    \/ ModeHotkey
    \/ ChangeText
    \/ HandleTextSubmit
    \/ InsertSymbol

ModeSpec == Init /\ [][ModeNext]_vars

ActiveModes(v) ==
    {m \in {"isDrawing", "isPanning", "isDragging", "isResizing", "isRubberBanding"} :
        v[m]}

(* What the effect on [isDrawing, isPanning, isDragging, isResizing]       *)
(* assigns to isActiveRef.current.                                         *)
active(v) == v.isDrawing \/ v.isPanning \/ v.isDragging \/ v.isResizing

====
